---------------------------- MODULE Spec2Model ----------------------------
(***************************************************************************)
(* Coffee cupping application: the enhanced cupping interface              *)
(* (components/cupping_interface.py), the legacy interface                 *)
(* (streamlit_app.py), the session store (database/db_manager.py), the     *)
(* public results page (pages/public_cupping.py) and the grade labels.     *)
(*                                                                         *)
(* Numbers: every attribute value is a multiple of 0.25 between 0 and 10,  *)
(* so a value x is held as the integer 4*x (Scale units per point); sums   *)
(* of such values below 2^53 are exact in binary floating point, so the    *)
(* integer arithmetic here is the arithmetic of the program.               *)
(* Python dicts are functions from key strings to values; a key a dict     *)
(* does not carry is outside its DOMAIN.  None is the string "None".       *)
(***************************************************************************)
EXTENDS Integers, Sequences, FiniteSets, TLC

VARIABLES
    app,              \* which program runs: "enhanced", "legacy" or "api" (a caller of the store)
    current_session,  \* enhanced: st.session_state.current_session
    selected,         \* enhanced: the "Select Sample to Score" selectbox (1-based)
    widgets,          \* enhanced: the keyed widgets of the scoring tab as last rendered
    editing,          \* enhanced: the indices i with st.session_state["editing_sample_i"]
    file,             \* JSON backend: the text of coffee_app_data.json
    clock,            \* datetime.now(), read by the store
    cupping_sessions, \* legacy: st.session_state.cupping_sessions
    scoring_session,  \* legacy: st.session_state.scoring_session (0 when absent)
    editing_session,  \* legacy: st.session_state.editing_session (0 when absent)
    scoring_widgets,  \* legacy: the keyed widgets of show_scoring_interface as last rendered
    session_notes,    \* legacy: the 'Overall session comments' text area of that interface
    data_file,        \* legacy: the "sessions" list of the data file save_data wrote
    confirm_delete,   \* legacy: the indices i with st.session_state['confirm_delete_i']
    delete_clicks,    \* legacy, history: per listed session, the clicks on its Delete button
    db_type,          \* api: DatabaseManager.db_type
    tables,           \* SQLite backend: the rows of cupping_sessions, samples, scores
    uuids,            \* api: the number of uuid4() values drawn so far
    mem,              \* api: the session dicts the caller holds
    returned,         \* api: per held session, the values save_cupping_session returned
    last_get,         \* api: the last get_session_by_share_id call and its result
    page_views,       \* the public page visits: the share id asked for and whether it was found
    total_in,         \* grade labels: the total of the sample on display
    grade_out,        \* grade labels: what each page shows for total_in
    score_distribution, \* dashboard: trends_data['score_distribution']
    trends,           \* analytics: what get_community_trends last returned
    insights,         \* analytics: the session last analysed and its insights
    outcome,          \* failures: how the last operation on a failing store ended
    public_view       \* what the public page and the share card last showed

vars == <<app, current_session, selected, widgets, editing, file, clock,
          cupping_sessions, scoring_session, editing_session, scoring_widgets,
          session_notes, data_file, confirm_delete, delete_clicks,
          db_type, tables, uuids, mem, returned, last_get, page_views,
          total_in, grade_out, score_distribution, trends, insights, outcome, public_view>>

enhancedVars == <<current_session, selected, widgets, editing>>
listVars == <<data_file, confirm_delete, delete_clicks>>
legacyVars == <<cupping_sessions, scoring_session, editing_session, scoring_widgets,
                session_notes, data_file, confirm_delete, delete_clicks>>
apiVars == <<db_type, tables, uuids, mem, returned, last_get>>
gradeVars == <<total_in, grade_out, score_distribution>>
analyticsVars == <<trends, insights>>
faultVars == <<outcome, public_view>>

-----------------------------------------------------------------------------
(* Bounds and input sets *)

MaxSamples == 2
MaxLegacySessions == 1
MaxClock == 3
MaxScores == 2
MaxStored == 2

SampleNames == {"A", "B"}
Origins == {"Huila"}
ShareIds == {"k1", "k2"}

\* one point of a score is Scale units: the sliders step by 0.25
Scale == 4

None == "None"
\* None where a dict is expected
NoneDict == [none |-> TRUE]

-----------------------------------------------------------------------------
(* Python dict helpers *)

Has(d, k) == k \in DOMAIN d
Get(d, k, default) == IF k \in DOMAIN d THEN d[k] ELSE default
Put(d, k, v) == (k :> v) @@ d

Range(s) == {s[i] : i \in DOMAIN s}
RemoveAt(s, i) == [j \in 1..(Len(s) - 1) |-> IF j < i THEN s[j] ELSE s[j + 1]]
Prefix(s, n) == [j \in 1..(IF n < Len(s) THEN n ELSE Len(s)) |-> s[j]]

-----------------------------------------------------------------------------
(* Scores *)

SCA_CATEGORIES == <<"fragrance", "flavor", "aftertaste", "acidity", "body",
                    "balance", "uniformity", "clean_cup", "sweetness", "overall">>

\* the sliders of the enhanced scoring tab: seven of step 0.25, then uniformity,
\* clean cup, sweetness and defects
SliderKeys == Range(SCA_CATEGORIES) \cup {"defects"}

\* the part of the flavor wheel the checkbox loop of the model walks, in the wheel's
\* order; the user of the model leaves the boxes as the score sets them
FlavorWheel == <<"Lemon">>

\* the slider positions the user of the model moves to
SliderMoves == {<<"defects", 8>>, <<"defects", 0>>}

NewScore(name) ==
    [sample_name |-> name,
     fragrance |-> 6 * Scale, flavor |-> 6 * Scale, aftertaste |-> 6 * Scale,
     acidity |-> 6 * Scale, body |-> 6 * Scale, balance |-> 6 * Scale,
     uniformity |-> 10 * Scale, clean_cup |-> 10 * Scale, sweetness |-> 10 * Scale,
     overall |-> 6 * Scale, defects |-> 0, total |-> 0,
     notes |-> "", selected_flavors |-> <<>>]

\* the sum a score's own attribute values give
AttributeSum(sc) ==
    sc.fragrance + sc.flavor + sc.aftertaste + sc.acidity + sc.body + sc.balance
    + sc.uniformity + sc.clean_cup + sc.sweetness + sc.overall - sc.defects

EnhancedTotalNoDefects(sc) ==
    sc.fragrance + sc.flavor + sc.aftertaste + sc.acidity + sc.body + sc.balance
    + sc.uniformity + sc.clean_cup + sc.sweetness + sc.overall

EnhancedTotal(sc) ==
    sc.fragrance + sc.flavor + sc.aftertaste + sc.acidity + sc.body + sc.balance
    + sc.uniformity + sc.clean_cup + sc.sweetness + sc.overall - sc.defects

-----------------------------------------------------------------------------
(* The enhanced interface: one script run renders the four tabs in order *)

NewSample(name, origin) ==
    [name |-> name, origin |-> origin, variety |-> "", process |-> "Washed",
     altitude |-> "", harvest_year |-> "2025"]

\* str(uuid.uuid4()): the n-th value drawn; two draws never agree
uuid4(n) == "uuid-" \o ToString(n)

NewSession(uuid) ==
    [session_id |-> uuid, name |-> "", date |-> "2025-01-21", cupper |-> "",
     protocol |-> "SCA Standard", water_temp |-> 93, cups_per_sample |-> 5,
     blind |-> FALSE, status |-> "Setup", samples |-> <<>>, scores |-> <<>>,
     session_notes |-> "", user_email |-> "demo@coffee.com", anonymous_mode |-> FALSE]

NoWidgets == [name |-> None]

\* the widgets of the scoring tab take their first value from the score they show
WidgetsFor(name, sc) ==
    [name |-> name,
     vals |-> [a \in SliderKeys |-> sc[a]],
     checked |-> Range(FlavorWheel) \cap Range(sc.selected_flavors),
     notes |-> sc.notes]

\* the first score carrying the name, 0 when there is none
ExistingScoreIdx(scores, name) ==
    IF \E i \in DOMAIN scores : scores[i].sample_name = name
    THEN CHOOSE i \in DOMAIN scores :
            /\ scores[i].sample_name = name
            /\ \A j \in 1..(i - 1) : scores[j].sample_name # name
    ELSE 0

\* list.remove: the first occurrence goes
ListRemove(list, x) ==
    LET i == CHOOSE j \in DOMAIN list : list[j] = x /\ \A h \in 1..(j - 1) : list[h] # x
    IN RemoveAt(list, i)

\* the checkbox loop over the flavor wheel, on the score's own list
RECURSIVE FlavorLoop(_, _, _)
FlavorLoop(list, checked, i) ==
    IF i > Len(FlavorWheel) THEN list
    ELSE LET f == FlavorWheel[i]
             next == IF f \in checked
                     THEN (IF f \in Range(list) THEN list ELSE Append(list, f))
                     ELSE (IF f \in Range(list) THEN ListRemove(list, f) ELSE list)
         IN FlavorLoop(next, checked, i + 1)

\* the status after Save Score
StatusAfterSave(status, nsamples, nscores) ==
    IF nscores = nsamples THEN "Scored" ELSE status

\* render_scoring_interface; save: the Save Score button was clicked.
\* current_score is the stored score itself when the sample has one, so what the
\* widgets hold is written into the session with or without Save Score.
render_scoring_interface(cs, sel, w, save) ==
    IF cs.samples = <<>> THEN [session |-> cs, widgets |-> NoWidgets]
    ELSE
    LET name == cs.samples[sel].name
        idx == ExistingScoreIdx(cs.scores, name)
        current == IF idx # 0 THEN cs.scores[idx] ELSE NewScore(name)
        live == IF w.name = name THEN w ELSE WidgetsFor(name, current)
        withSliders == [k \in DOMAIN current |->
                            IF k \in SliderKeys THEN live.vals[k] ELSE current[k]]
        withTotal == [withSliders EXCEPT !.total = EnhancedTotal(withSliders)]
        current_score == [withTotal EXCEPT
                            !.selected_flavors = FlavorLoop(@, live.checked, 1),
                            !.notes = live.notes]
        aliased == IF idx # 0 THEN [cs.scores EXCEPT ![idx] = current_score]
                   ELSE cs.scores
        scores == IF save /\ idx = 0 THEN Append(aliased, current_score) ELSE aliased
        status == IF save
                  THEN StatusAfterSave(cs.status, Len(cs.samples), Len(scores))
                  ELSE cs.status
    IN [session |-> [cs EXCEPT !.scores = scores, !.status = status],
        widgets |-> live]

-----------------------------------------------------------------------------
(* The session store: JSON text *)

NumberKeys == SliderKeys \cup {"total"}

\* json.dump writes a float as its shortest decimal literal, here <<whole, hundredths>>
FloatRepr(q) == <<q \div Scale, (q % Scale) * 25>>
ParseFloat(lit) == lit[1] * Scale + lit[2] \div 25

DumpScore(sc) == [k \in DOMAIN sc |-> IF k \in NumberKeys THEN FloatRepr(sc[k]) ELSE sc[k]]
LoadScore(js) == [k \in DOMAIN js |-> IF k \in NumberKeys THEN ParseFloat(js[k]) ELSE js[k]]

DumpSession(s) ==
    [k \in DOMAIN s |-> IF k = "scores" THEN [i \in DOMAIN s[k] |-> DumpScore(s[k][i])]
                        ELSE s[k]]
LoadSession(js) ==
    [k \in DOMAIN js |-> IF k = "scores" THEN [i \in DOMAIN js[k] |-> LoadScore(js[k][i])]
                         ELSE js[k]]

JsonDump(data) ==
    [data EXCEPT !.cupping_sessions = [i \in DOMAIN @ |-> DumpSession(@[i])]]
JsonLoad(text) ==
    [text EXCEPT !.cupping_sessions = [i \in DOMAIN @ |-> LoadSession(@[i])]]

initial_data == [users |-> <<>>, cupping_sessions |-> <<>>, coffee_reviews |-> <<>>,
                 analytics |-> <<>>]

\* the content of a file whose write stopped after open(path, 'w') had emptied it
TruncatedText == [truncated |-> TRUE]

\* json.load raises JSONDecodeError on such a text and the except clause
\* returns the empty structure
load_json_data(f) == IF f = TruncatedText THEN initial_data ELSE JsonLoad(f)
save_json_data(data) == JsonDump(data)

\* the fields save_cupping_session writes into the caller's dict before it stores it
StampSession(session_data, anonymous_mode, share_id, now) ==
    Put(Put(Put(Put(session_data, "share_id", share_id),
                "anonymous_mode", anonymous_mode),
            "created_at", now),
        "updated_at", now)

_save_session_json(f, session_data) ==
    LET data == load_json_data(f)
    IN [file |-> save_json_data(
                    [data EXCEPT !.cupping_sessions = Append(@, session_data)]),
        ret |-> session_data.share_id]

GetSessionJsonBySessionId(f, share_id) ==
    LET sessions == load_json_data(f).cupping_sessions
        hits == {i \in DOMAIN sessions : Get(sessions[i], "session_id", None) = share_id}
    IN IF hits = {} THEN NoneDict
       ELSE sessions[CHOOSE i \in hits : \A j \in hits : i <= j]

\* the first stored session with the share id, None when there is none
_get_session_json(f, share_id) ==
    LET sessions == load_json_data(f).cupping_sessions
        hits == {i \in DOMAIN sessions : Get(sessions[i], "share_id", None) = share_id}
    IN IF hits = {} THEN NoneDict
       ELSE sessions[CHOOSE i \in hits : \A j \in hits : i <= j]

\* a log that keeps the latest event only
LogEventJsonKeepsLatest(f, event) ==
    LET data == load_json_data(f)
    IN save_json_data([data EXCEPT !.analytics = <<event>>])

_log_event_json(f, event) ==
    LET data == load_json_data(f)
    IN save_json_data([data EXCEPT !.analytics = Append(@, event)])

-----------------------------------------------------------------------------
(* The session store: SQLite tables.  A row's id is its position in the table. *)

no_tables == [cupping_sessions |-> <<>>, samples |-> <<>>, scores |-> <<>>,
              analytics |-> <<>>]

SessionRow(session_data, session_id, now) ==
    [session_id |-> session_id,
     share_id |-> session_data.share_id,
     user_email |-> Get(session_data, "user_email", None),
     name |-> session_data.name,
     date |-> session_data.date,
     cupper |-> Get(session_data, "cupper", None),
     protocol |-> Get(session_data, "protocol", None),
     water_temp |-> Get(session_data, "water_temp", None),
     cups_per_sample |-> Get(session_data, "cups_per_sample", None),
     blind |-> Get(session_data, "blind", None),
     status |-> Get(session_data, "status", None),
     session_notes |-> Get(session_data, "session_notes", None),
     anonymous_mode |-> session_data.anonymous_mode,
     created_at |-> now, updated_at |-> now]

SampleRow(session_id, sample) ==
    [session_id |-> session_id, name |-> sample.name,
     origin |-> Get(sample, "origin", None), variety |-> Get(sample, "variety", None),
     process |-> Get(sample, "process", None), altitude |-> Get(sample, "altitude", None),
     harvest_year |-> Get(sample, "harvest_year", None)]

\* json.dumps of the flavor list, kept in a TEXT column
FlavorsText(list) == [json |-> list]

ScoreRow(session_id, score) ==
    [k \in NumberKeys \cup {"session_id", "sample_name", "notes", "selected_flavors"} |->
        CASE k = "session_id" -> session_id
          [] k = "sample_name" -> score.sample_name
          [] k = "selected_flavors" -> FlavorsText(Get(score, "selected_flavors", <<>>))
          [] OTHER -> Get(score, k, None)]

\* the insert raises: a key read with [] is missing, or a UNIQUE column repeats
SessionInsertFails(t, session_data, session_id) ==
    \/ ~Has(session_data, "name")
    \/ ~Has(session_data, "date")
    \/ \E i \in DOMAIN t.cupping_sessions :
          \/ t.cupping_sessions[i].session_id = session_id
          \/ t.cupping_sessions[i].share_id = session_data.share_id
    \/ \E i \in DOMAIN Get(session_data, "samples", <<>>) :
          ~Has(session_data.samples[i], "name")
    \/ \E i \in DOMAIN Get(session_data, "scores", <<>>) :
          ~Has(session_data.scores[i], "sample_name")

\* the session_id the samples and scores rows are written under
ChildSessionId(session_data, first_uuid, second_uuid) ==
    Get(session_data, "session_id", second_uuid)

\* u: uuid4() values drawn before the call; the call draws two
_save_session_sqlite(t, u, session_data, now) ==
    LET session_id == Get(session_data, "session_id", uuid4(u))
        child_id == ChildSessionId(session_data, uuid4(u), uuid4(u + 1))
        samples == Get(session_data, "samples", <<>>)
        scores == Get(session_data, "scores", <<>>)
    IN IF SessionInsertFails(t, session_data, session_id)
       THEN [tables |-> t, ret |-> None]
       ELSE [tables |->
                [t EXCEPT
                    !.cupping_sessions =
                        Append(@, SessionRow(session_data, session_id, now)),
                    !.samples =
                        @ \o [i \in DOMAIN samples |-> SampleRow(child_id, samples[i])],
                    !.scores =
                        @ \o [i \in DOMAIN scores |-> ScoreRow(child_id, scores[i])]],
             ret |-> session_data.share_id]

RowsOf(table, session_id) ==
    LET F[i \in 0..Len(table)] ==
            IF i = 0 THEN <<>>
            ELSE IF table[i].session_id = session_id
                 THEN Append(F[i - 1], Put(table[i], "id", i))
                 ELSE F[i - 1]
    IN F[Len(table)]

\* the row of the share id with its samples and scores, NoneDict when there is none
_get_session_sqlite(t, share_id) ==
    LET hits == {i \in DOMAIN t.cupping_sessions :
                    t.cupping_sessions[i].share_id = share_id}
    IN IF hits = {} THEN NoneDict
       ELSE LET i == CHOOSE h \in hits : \A j \in hits : h <= j
                session == Put(t.cupping_sessions[i], "id", i)
                scores == RowsOf(t.scores, session.session_id)
            IN Put(Put(session, "samples", RowsOf(t.samples, session.session_id)),
                   "scores",
                   [j \in DOMAIN scores |->
                        [scores[j] EXCEPT !.selected_flavors = @.json]])

-----------------------------------------------------------------------------
(* The store's interface *)

\* what the call does to the caller's dict, the store and the clock, and what it returns
save_cupping_session(dbt, f, t, u, session_data, anonymous_mode, share_id, now) ==
    LET stamped == StampSession(session_data, anonymous_mode, share_id, now)
    IN IF dbt = "sqlite"
       THEN LET r == _save_session_sqlite(t, u, stamped, now)
            IN [session |-> stamped, file |-> f, tables |-> r.tables, ret |-> r.ret]
       ELSE LET r == _save_session_json(f, stamped)
            IN [session |-> stamped, file |-> r.file, tables |-> t, ret |-> r.ret]

get_session_by_share_id(dbt, f, t, share_id) ==
    IF dbt = "sqlite" THEN _get_session_sqlite(t, share_id)
    ELSE _get_session_json(f, share_id)

AnalyticsEvent(event_type, session_id, now) ==
    [event_type |-> event_type, session_id |-> session_id, user_email |-> None,
     data |-> None, timestamp |-> now]

\* the event goes to the analytics list of the file or to the analytics table
log_analytics_event(dbt, f, t, event_type, session_id, now) ==
    LET event == AnalyticsEvent(event_type, session_id, now)
    IN IF dbt = "sqlite"
       THEN [file |-> f, tables |-> [t EXCEPT !.analytics = Append(@, event)]]
       ELSE [file |-> _log_event_json(f, event), tables |-> t]

-----------------------------------------------------------------------------
(* The enhanced interface: the Share & Export tab and the user's actions *)

\* Python truth of a share id: None and '' are false
Truthy(x) == x # None /\ x # ""

ShareExportAlwaysSaves(cs, dbt, f, t, u, share_id, now) ==
    IF Get(cs, "status", None) # "Scored"
    THEN [session |-> cs, file |-> f, tables |-> t, clock |-> now]
    ELSE LET r == save_cupping_session(dbt, f, t, u, cs,
                                       Get(cs, "anonymous_mode", FALSE), share_id, now)
         IN [session |-> IF Truthy(r.ret) THEN Put(r.session, "share_id", r.ret)
                         ELSE r.session,
             file |-> r.file, tables |-> r.tables, clock |-> now + 1]

\* render_share_export up to the sharing interface; save_cupping_session writes
\* share_id into the session dict it is handed, which is the session itself
render_share_export(cs, dbt, f, t, u, share_id, now) ==
    IF Get(cs, "status", None) # "Scored" \/ Truthy(Get(cs, "share_id", None))
    THEN [session |-> cs, file |-> f, tables |-> t, clock |-> now]
    ELSE LET r == save_cupping_session(dbt, f, t, u, cs,
                                       Get(cs, "anonymous_mode", FALSE), share_id, now)
         IN [session |-> IF Truthy(r.ret) THEN Put(r.session, "share_id", r.ret)
                         ELSE r.session,
             file |-> r.file, tables |-> r.tables, clock |-> now + 1]

\* the selectbox keeps its choice while its option labels stay the same
SelectedAfter(old, new, sel) ==
    IF [i \in DOMAIN old |-> old[i].name] = [i \in DOMAIN new |-> new[i].name]
    THEN sel ELSE 1

\* tabs 3 and 4 of a script run, after what tab 1 and tab 2 did to the session
FinishRun(cs, w, save) ==
    \E share_id \in ShareIds :
        LET sel == SelectedAfter(current_session.samples, cs.samples, selected)
            r3 == render_scoring_interface(cs, sel, w, save)
            r4 == render_share_export(r3.session, db_type, file, tables, uuids,
                                      share_id, clock)
        IN /\ current_session' = r4.session
           /\ selected' = sel
           /\ widgets' = r3.widgets
           /\ file' = r4.file
           /\ clock' = r4.clock
           /\ UNCHANGED <<app, legacyVars, apiVars, page_views, gradeVars, analyticsVars, faultVars>>

SessionNames == {"Colombian Origins"}

SetSessionName(n) ==
    /\ app = "enhanced"
    /\ current_session.name # n
    /\ UNCHANGED editing
    /\ FinishRun([current_session EXCEPT !.name = n], widgets, FALSE)

AddSample(n, o) ==
    /\ app = "enhanced"
    /\ current_session.name # ""
    /\ Len(current_session.samples) < MaxSamples
    /\ UNCHANGED editing
    /\ FinishRun([current_session EXCEPT !.samples = Append(@, NewSample(n, o))],
                 widgets, FALSE)

RemoveSample(i) ==
    /\ app = "enhanced"
    /\ current_session.name # ""
    /\ i \in DOMAIN current_session.samples
    /\ UNCHANGED editing
    /\ FinishRun([current_session EXCEPT !.samples = RemoveAt(@, i)], widgets, FALSE)

ClickEditSample(i) ==
    /\ app = "enhanced"
    /\ current_session.name # ""
    /\ i \in DOMAIN current_session.samples
    /\ editing = {}
    /\ editing' = editing \cup {i}
    /\ FinishRun(current_session, widgets, FALSE)

SaveSampleEdit(i, n, o) ==
    /\ app = "enhanced"
    /\ current_session.name # ""
    /\ i \in DOMAIN current_session.samples
    /\ i \in editing
    /\ editing' = editing \ {i}
    /\ FinishRun([current_session EXCEPT
                    !.samples[i] = [@ EXCEPT !.name = n, !.origin = o]],
                 widgets, FALSE)

CancelSampleEdit(i) ==
    /\ app = "enhanced"
    /\ current_session.name # ""
    /\ i \in DOMAIN current_session.samples
    /\ i \in editing
    /\ editing' = editing \ {i}
    /\ FinishRun(current_session, widgets, FALSE)

StartScoring ==
    /\ app = "enhanced"
    /\ current_session.name # ""
    /\ current_session.samples # <<>>
    /\ UNCHANGED editing
    /\ FinishRun([current_session EXCEPT !.status = "Ready to Score"], widgets, FALSE)

SelectSample(i) ==
    /\ app = "enhanced"
    /\ i \in DOMAIN current_session.samples
    /\ i # selected
    /\ selected' = i
    /\ UNCHANGED editing
    /\ \E share_id \in ShareIds :
        LET r3 == render_scoring_interface(current_session, i, widgets, FALSE)
            r4 == render_share_export(r3.session, db_type, file, tables, uuids,
                                      share_id, clock)
        IN /\ current_session' = r4.session
           /\ widgets' = r3.widgets
           /\ file' = r4.file
           /\ clock' = r4.clock
           /\ UNCHANGED <<app, legacyVars, apiVars, page_views, gradeVars, analyticsVars, faultVars>>

MoveSlider(a, v) ==
    /\ app = "enhanced"
    /\ widgets # NoWidgets
    /\ widgets.vals[a] # v
    /\ UNCHANGED editing
    /\ FinishRun(current_session, [widgets EXCEPT !.vals[a] = v], FALSE)

SaveScore ==
    /\ app = "enhanced"
    /\ current_session.samples # <<>>
    /\ UNCHANGED editing
    /\ FinishRun(current_session, widgets, TRUE)

NextEnhanced ==
    \/ \E n \in SessionNames : SetSessionName(n)
    \/ \E n \in SampleNames, o \in Origins : AddSample(n, o)
    \/ \E i \in 1..MaxSamples : RemoveSample(i)
    \/ \E i \in 1..MaxSamples : ClickEditSample(i)
    \/ \E i \in 1..MaxSamples, n \in SampleNames, o \in Origins : SaveSampleEdit(i, n, o)
    \/ \E i \in 1..MaxSamples : CancelSampleEdit(i)
    \/ StartScoring
    \/ \E i \in 1..MaxSamples : SelectSample(i)
    \/ \E m \in SliderMoves : MoveSlider(m[1], m[2])
    \/ SaveScore

-----------------------------------------------------------------------------
(* The legacy interface (streamlit_app.py) *)

\* the sliders of show_scoring_interface start at 8.0, 10 and 0
\* what the user of the model types as session notes
SessionNotes == {"", "balanced table"}

LegacyDefaults ==
    [fragrance |-> 8 * Scale, flavor |-> 8 * Scale, aftertaste |-> 8 * Scale,
     acidity |-> 8 * Scale, body |-> 8 * Scale, balance |-> 8 * Scale,
     uniformity |-> 10 * Scale, clean_cup |-> 10 * Scale, sweetness |-> 10 * Scale,
     overall |-> 8 * Scale, defects |-> 0]

\* the slider positions the user of the model moves to: flavor 8.5, 3 defects
LegacySliderMoves == {<<"flavor", 34>>, <<"defects", 12>>}

\* the name the user of the model types for the i-th sample
TypedName(i) == "Sample " \o ToString(i)

LegacyTotal(v) ==
    v.fragrance + v.flavor + v.aftertaste + v.acidity + v.body + v.balance
    + v.uniformity + v.clean_cup + v.sweetness + v.overall - v.defects

\* the dict appended to sample_scores for one sample; no flavor is ticked and no
\* note typed, which leaves notes '' and selected_flavors []
LegacyScore(sample, v) ==
    [sample_name |-> sample.name,
     fragrance |-> v.fragrance, flavor |-> v.flavor, aftertaste |-> v.aftertaste,
     acidity |-> v.acidity, body |-> v.body, balance |-> v.balance,
     uniformity |-> v.uniformity, clean_cup |-> v.clean_cup,
     sweetness |-> v.sweetness, overall |-> v.overall, defects |-> v.defects,
     total |-> LegacyTotal(v), notes |-> "", selected_flavors |-> <<>>]

LegacySession(n) ==
    [name |-> "Session", date |-> "2025-01-21", cupper |-> "Coffee Tester",
     protocol |-> "SCA Standard", blind |-> TRUE, water_temp |-> 93,
     samples |-> [i \in 1..n |-> NewSample(TypedName(i), "Huila")],
     cups_per_sample |-> 5, created |-> "2025-01-21 10:00", status |-> "Created"]

\* the keyed sliders show_scoring_interface renders: one set per sample of the
\* session being scored, a new set starting at the defaults
ScoringWidgets(sessions, idx, sw) ==
    IF idx = 0 THEN <<>>
    ELSE [i \in DOMAIN sessions[idx].samples |->
            IF i \in DOMAIN sw THEN sw[i] ELSE LegacyDefaults]

\* save_data and load_data: the "sessions" list as JSON text and back
save_data(sessions) == [i \in DOMAIN sessions |-> DumpSession(sessions[i])]
load_data(text) == [i \in DOMAIN text |-> LoadSession(text[i])]

\* show_scoring_interface(scoring_session) finds its session: past the end of
\* the list, cupping_sessions[session_index] raises IndexError and the script
\* run stops there
ScoringShown == scoring_session \in DOMAIN cupping_sessions

\* show_edit_interface comes later in the script run
EditShown ==
    /\ editing_session \in DOMAIN cupping_sessions
    /\ scoring_session = 0 \/ ScoringShown

LegacyFrame == UNCHANGED <<app, enhancedVars, file, clock, apiVars, page_views, gradeVars, analyticsVars, faultVars>>

CreateSession(n) ==
    /\ app = "legacy"
    /\ Len(cupping_sessions) < MaxLegacySessions
    /\ cupping_sessions' = Append(cupping_sessions, LegacySession(n))
    /\ data_file' = save_data(cupping_sessions')
    /\ delete_clicks' = Append(delete_clicks, 0)
    /\ scoring_widgets' =
          IF scoring_session \in DOMAIN cupping_sessions'
          THEN ScoringWidgets(cupping_sessions', scoring_session, scoring_widgets)
          ELSE <<>>
    /\ UNCHANGED <<scoring_session, editing_session, session_notes, confirm_delete>>
    /\ LegacyFrame

ClickScore(i) ==
    /\ app = "legacy"
    /\ i \in DOMAIN cupping_sessions
    /\ cupping_sessions[i].status # "Scored"
    /\ scoring_session' = i
    /\ scoring_widgets' =
          ScoringWidgets(cupping_sessions, i, IF scoring_session = i THEN scoring_widgets ELSE <<>>)
    /\ session_notes' = IF scoring_session = i THEN session_notes ELSE ""
    /\ UNCHANGED <<cupping_sessions, editing_session, listVars>>
    /\ LegacyFrame

LegacyMoveSlider(i, a, v) ==
    /\ app = "legacy"
    /\ ScoringShown
    /\ i \in DOMAIN scoring_widgets
    /\ scoring_widgets[i][a] # v
    /\ scoring_widgets' = [scoring_widgets EXCEPT ![i][a] = v]
    /\ UNCHANGED <<cupping_sessions, scoring_session, editing_session, session_notes,
                   listVars>>
    /\ LegacyFrame

\* the user types into the session notes text area
TypeSessionNotes(text) ==
    /\ app = "legacy"
    /\ ScoringShown
    /\ session_notes # text
    /\ session_notes' = text
    /\ UNCHANGED <<cupping_sessions, scoring_session, editing_session, scoring_widgets,
                   listVars>>
    /\ LegacyFrame

SaveScoresAppends(session, sw, notes) ==
    LET sample_scores == [i \in DOMAIN session.samples |->
                            LegacyScore(session.samples[i], sw[i])]
    IN Put(Put(Put(Put(session, "scores", Get(session, "scores", <<>>) \o sample_scores),
                   "session_notes", notes),
               "status", "Scored"),
           "scored_date", "2025-01-21 11:00")

\* what the Save Scores button stores: the whole scores list is replaced by what
\* the sliders hold, one score per sample
save_scores(session, sw, notes) ==
    LET sample_scores == [i \in DOMAIN session.samples |->
                            LegacyScore(session.samples[i], sw[i])]
    IN Put(Put(Put(Put(session, "scores", sample_scores),
                   "session_notes", notes),
               "status", "Scored"),
           "scored_date", "2025-01-21 11:00")

\* the button writes into st.session_state.cupping_sessions only
SaveScores ==
    /\ app = "legacy"
    /\ ScoringShown
    /\ cupping_sessions' =
          [cupping_sessions EXCEPT ![scoring_session] =
              save_scores(@, scoring_widgets, session_notes)]
    /\ scoring_session' = 0
    /\ scoring_widgets' = <<>>
    /\ session_notes' = ""
    /\ UNCHANGED <<editing_session, listVars>>
    /\ LegacyFrame

CancelScoring ==
    /\ app = "legacy"
    /\ ScoringShown
    /\ scoring_session' = 0
    /\ scoring_widgets' = <<>>
    /\ session_notes' = ""
    /\ UNCHANGED <<cupping_sessions, editing_session, listVars>>
    /\ LegacyFrame

ClickEdit(i) ==
    /\ app = "legacy"
    /\ i \in DOMAIN cupping_sessions
    /\ editing_session # i
    /\ editing_session' = i
    /\ UNCHANGED <<cupping_sessions, scoring_session, scoring_widgets, session_notes,
                   listVars>>
    /\ LegacyFrame

UpdatedSessionKeepsAllScores(session, num_samples) ==
    LET samples == [i \in 1..num_samples |->
                        IF i \in DOMAIN session.samples THEN session.samples[i]
                        ELSE NewSample(TypedName(i), "Huila")]
        base == [name |-> session.name, date |-> session.date, cupper |-> session.cupper,
                 protocol |-> session.protocol, blind |-> session.blind,
                 water_temp |-> session.water_temp, samples |-> samples,
                 cups_per_sample |-> session.cups_per_sample,
                 created |-> session.created, status |-> session.status,
                 last_modified |-> "2025-01-21 12:00"]
    IN IF Get(session, "status", None) = "Scored" /\ Has(session, "scores")
       THEN IF num_samples <= Len(session.samples)
            THEN Put(Put(Put(base, "scores", session.scores),
                         "session_notes", Get(session, "session_notes", "")),
                     "scored_date", Get(session, "scored_date", ""))
            ELSE Put(base, "status", "Created")
       ELSE base

\* the session the edit form's Save Changes stores, for num_samples samples
updated_session(session, num_samples) ==
    LET samples == [i \in 1..num_samples |->
                        IF i \in DOMAIN session.samples THEN session.samples[i]
                        ELSE NewSample(TypedName(i), "Huila")]
        base == [name |-> session.name, date |-> session.date, cupper |-> session.cupper,
                 protocol |-> session.protocol, blind |-> session.blind,
                 water_temp |-> session.water_temp, samples |-> samples,
                 cups_per_sample |-> session.cups_per_sample,
                 created |-> session.created, status |-> session.status,
                 last_modified |-> "2025-01-21 12:00"]
        scored == IF Get(session, "status", None) = "Scored" /\ Has(session, "scores")
                  THEN IF num_samples <= Len(session.samples)
                       THEN Put(Put(Put(base, "scores", Prefix(session.scores, num_samples)),
                                    "session_notes", Get(session, "session_notes", "")),
                                "scored_date", Get(session, "scored_date", ""))
                       ELSE Put(base, "status", "Created")
                  ELSE base
    IN IF Has(session, "participants")
       THEN Put(scored, "participants", session.participants)
       ELSE scored

SaveEdit(n) ==
    /\ app = "legacy"
    /\ EditShown
    /\ cupping_sessions' =
          [cupping_sessions EXCEPT ![editing_session] = updated_session(@, n)]
    /\ data_file' = save_data(cupping_sessions')
    /\ editing_session' = 0
    /\ scoring_widgets' = ScoringWidgets(cupping_sessions', scoring_session, scoring_widgets)
    /\ UNCHANGED <<scoring_session, session_notes, confirm_delete, delete_clicks>>
    /\ LegacyFrame

CancelEdit ==
    /\ app = "legacy"
    /\ EditShown
    /\ editing_session' = 0
    /\ UNCHANGED <<cupping_sessions, scoring_session, scoring_widgets, session_notes,
                   listVars>>
    /\ LegacyFrame

\* the Delete button of session i: the click deletes when confirm_delete_i is
\* set, and sets it otherwise; nothing resets the flag and nothing is saved
ClickDelete(i) ==
    /\ app = "legacy"
    /\ i \in DOMAIN cupping_sessions
    /\ IF i \in confirm_delete
       THEN /\ cupping_sessions' = RemoveAt(cupping_sessions, i)
            /\ delete_clicks' = RemoveAt(delete_clicks, i)
            /\ scoring_widgets' =
                  IF scoring_session \in DOMAIN cupping_sessions'
                  THEN ScoringWidgets(cupping_sessions', scoring_session, scoring_widgets)
                  ELSE <<>>
            /\ session_notes' =
                  IF scoring_session \in DOMAIN cupping_sessions' THEN session_notes ELSE ""
            /\ UNCHANGED confirm_delete
       ELSE /\ confirm_delete' = confirm_delete \cup {i}
            /\ delete_clicks' = [delete_clicks EXCEPT ![i] = @ + 1]
            /\ UNCHANGED <<cupping_sessions, scoring_widgets, session_notes>>
    /\ UNCHANGED <<scoring_session, editing_session, data_file>>
    /\ LegacyFrame

\* the app is started again: a new st.session_state, filled by init_data
Restart ==
    /\ app = "legacy"
    /\ cupping_sessions' = load_data(data_file)
    /\ scoring_session' = 0
    /\ editing_session' = 0
    /\ scoring_widgets' = <<>>
    /\ session_notes' = ""
    /\ confirm_delete' = {}
    /\ delete_clicks' = [i \in DOMAIN data_file |-> 0]
    /\ UNCHANGED data_file
    /\ LegacyFrame

NextLegacy ==
    \/ \E n \in 1..MaxSamples : CreateSession(n)
    \/ \E i \in DOMAIN cupping_sessions : ClickScore(i)
    \/ \E i \in 1..MaxSamples, m \in LegacySliderMoves : LegacyMoveSlider(i, m[1], m[2])
    \/ \E text \in SessionNotes : TypeSessionNotes(text)
    \/ SaveScores
    \/ CancelScoring
    \/ \E i \in DOMAIN cupping_sessions : ClickEdit(i)
    \/ \E n \in 1..MaxSamples : SaveEdit(n)
    \/ CancelEdit
    \/ \E i \in DOMAIN cupping_sessions : ClickDelete(i)
    \/ Restart

-----------------------------------------------------------------------------
(* A caller of the store, as test_app.test_database: it saves the sessions it *)
(* holds, reads sessions back by share id, logs events and opens the public   *)
(* page of a share link.                                                      *)

\* the session of test_database: it carries no session_id, scores or status
test_session ==
    [name |-> "Test Session", date |-> "2025-01-21", cupper |-> "Test User",
     samples |-> <<[name |-> "Test Coffee", origin |-> "Test Origin"]>>,
     user_email |-> "test@example.com"]

\* a session as the enhanced interface holds it after Save Score: one sample,
\* its score with a quarter-point value, a deduction, a flavor and notes
ScoredSession ==
    LET cs == [NewSession(uuid4(0)) EXCEPT !.name = "Colombian Origins", !.cupper = "Ana",
                                           !.samples = <<NewSample("A", "Huila")>>]
        w0 == WidgetsFor("A", NewScore("A"))
        w == [w0 EXCEPT !.vals.fragrance = 8 * Scale + 1, !.vals.defects = 2 * Scale,
                        !.checked = {"Lemon"}, !.notes = "bright"]
    IN render_scoring_interface(cs, 1, w, TRUE).session

CallerSessions == <<test_session, ScoredSession>>

\* the public page up to its header: the event is logged only for a session found
render_public_cupping_page(dbt, f, t, share_id, now) ==
    LET session_data == get_session_by_share_id(dbt, f, t, share_id)
    IN IF session_data = NoneDict
       THEN [found |-> FALSE, file |-> f, tables |-> t, clock |-> now]
       ELSE LET r == log_analytics_event(dbt, f, t, "public_view", share_id, now)
            IN [found |-> TRUE, file |-> r.file, tables |-> r.tables, clock |-> now + 1]

ApiFrame == UNCHANGED <<app, enhancedVars, legacyVars, db_type, gradeVars, analyticsVars, faultVars>>

\* share_id = db.save_cupping_session(mem[i], anonymous_mode)
ApiSave(i, anonymous_mode) ==
    /\ app = "api"
    /\ clock < MaxClock
    /\ \E share_id \in ShareIds :
          LET r == save_cupping_session(db_type, file, tables, uuids, mem[i],
                                        anonymous_mode, share_id, clock)
          IN /\ mem' = [mem EXCEPT ![i] = r.session]
             /\ returned' = [returned EXCEPT ![i] = Append(@, r.ret)]
             /\ file' = r.file
             /\ tables' = r.tables
    /\ clock' = clock + 1
    /\ uuids' = IF db_type = "sqlite" THEN uuids + 2 ELSE uuids
    /\ UNCHANGED <<last_get, page_views>>
    /\ ApiFrame

\* retrieved = db.get_session_by_share_id(share_id)
ApiGet(share_id) ==
    /\ app = "api"
    /\ last_get' = [share_id |-> share_id,
                    result |-> get_session_by_share_id(db_type, file, tables, share_id)]
    /\ UNCHANGED <<file, tables, clock, uuids, mem, returned, page_views>>
    /\ ApiFrame

\* the Copy button of the sharing interface
ApiLogEvent(share_id) ==
    /\ app = "api"
    /\ clock < MaxClock
    /\ LET r == log_analytics_event(db_type, file, tables, "url_copied", share_id, clock)
       IN file' = r.file /\ tables' = r.tables
    /\ clock' = clock + 1
    /\ UNCHANGED <<uuids, mem, returned, last_get, page_views>>
    /\ ApiFrame

\* a visitor opens ?share=share_id
PublicPage(share_id) ==
    /\ app = "api"
    /\ clock < MaxClock
    /\ LET r == render_public_cupping_page(db_type, file, tables, share_id, clock)
       IN /\ file' = r.file
          /\ tables' = r.tables
          /\ clock' = r.clock
          /\ page_views' = [share_id |-> share_id, found |-> r.found]
    /\ UNCHANGED <<uuids, mem, returned, last_get>>
    /\ ApiFrame

NextDb ==
    \/ \E i \in DOMAIN CallerSessions, anonymous_mode \in BOOLEAN : ApiSave(i, anonymous_mode)
    \/ \E share_id \in ShareIds : ApiGet(share_id)
    \/ \E share_id \in ShareIds : ApiLogEvent(share_id)
    \/ \E share_id \in ShareIds : PublicPage(share_id)

-----------------------------------------------------------------------------
(* Grade labels.  A label is its icon and its word. *)

Label(icon, word) == [icon |-> icon, word |-> word]

LegacyGradeExclusive(total) ==
    IF total > 90 * Scale THEN Label("trophy", "Outstanding")
    ELSE IF total > 85 * Scale THEN Label("star", "Excellent")
    ELSE IF total > 80 * Scale THEN Label("thumbs up", "Very Good")
    ELSE IF total > 75 * Scale THEN Label("ok hand", "Good")
    ELSE Label("warning", "Fair")

\* streamlit_app.show_scoring_interface
LegacyGrade(total) ==
    IF total >= 90 * Scale THEN Label("trophy", "Outstanding")
    ELSE IF total >= 85 * Scale THEN Label("star", "Excellent")
    ELSE IF total >= 80 * Scale THEN Label("thumbs up", "Very Good")
    ELSE IF total >= 75 * Scale THEN Label("ok hand", "Good")
    ELSE Label("warning", "Fair")

\* cupping_interface.render_scoring_interface
EnhancedGrade(total) ==
    IF total >= 90 * Scale THEN Label("trophy", "Outstanding")
    ELSE IF total >= 85 * Scale THEN Label("star", "Excellent")
    ELSE IF total >= 80 * Scale THEN Label("thumbs up", "Very Good")
    ELSE Label("ok hand", "Good")

\* public_cupping.render_public_cupping_page
PublicGrade(total_score) ==
    IF total_score >= 90 * Scale THEN Label("trophy", "Outstanding")
    ELSE IF total_score >= 85 * Scale THEN Label("star", "Excellent")
    ELSE IF total_score >= 80 * Scale THEN Label("thumbs up", "Very Good")
    ELSE Label("ok hand", "Good")

\* len([s for s in scores if ...])
Len_of(scores, bucket) == Cardinality({i \in DOMAIN scores : scores[i] \in bucket})

\* analytics_dashboard.render_quality_metrics
grade_distribution(scores) ==
    LET values == {scores[i] : i \in DOMAIN scores}
    IN ("Outstanding (90+)" :> Len_of(scores, {s \in values : s >= 90 * Scale}))
       @@ ("Excellent (85-89)" :>
              Len_of(scores, {s \in values : 85 * Scale <= s /\ s < 90 * Scale}))
       @@ ("Very Good (80-84)" :>
              Len_of(scores, {s \in values : 80 * Scale <= s /\ s < 85 * Scale}))
       @@ ("Good (75-79)" :>
              Len_of(scores, {s \in values : 75 * Scale <= s /\ s < 80 * Scale}))
       @@ ("Fair (<75)" :> Len_of(scores, {s \in values : s < 75 * Scale}))

\* the least and the greatest total the sliders of each interface give
LegacyMinTotal == 7 * 6 * Scale - 10 * Scale
EnhancedMinTotal == 10 * 6 * Scale - 8 * Scale
MaxTotal == 10 * 10 * Scale
Totals == LegacyMinTotal..MaxTotal

\* the totals the dashboard of the model is given: each side of every threshold
BucketInputs ==
    {t \in Totals : \E b \in {75, 80, 85, 90} : t \in {b * Scale - 1, b * Scale}}
    \cup {LegacyMinTotal}

NoGrades == [total |-> None]

GradeFrame ==
    UNCHANGED <<app, enhancedVars, legacyVars, file, clock, apiVars, page_views, analyticsVars, faultVars>>

\* the three pages show the sample whose total is total_in
ShowGrade ==
    /\ app = "grade"
    /\ ~Has(grade_out, "legacy")
    /\ grade_out' = Put(Put(Put(Put(grade_out, "total", total_in),
                                "legacy", LegacyGrade(total_in)),
                            "enhanced", EnhancedGrade(total_in)),
                        "public", PublicGrade(total_in))
    /\ UNCHANGED <<total_in, score_distribution>>
    /\ GradeFrame

\* the dashboard is rendered after one more total has reached the trends data
RenderQualityMetrics(t) ==
    /\ app = "grade"
    /\ Len(score_distribution) < MaxScores
    /\ score_distribution' = Append(score_distribution, t)
    /\ grade_out' = Put(grade_out, "dashboard", grade_distribution(score_distribution'))
    /\ UNCHANGED total_in
    /\ GradeFrame

NextGrade ==
    \/ ShowGrade
    \/ \E t \in BucketInputs : RenderQualityMetrics(t)

-----------------------------------------------------------------------------
(* Analytics: utils/analytics.py.  A float is held as a fraction num/den of     *)
(* Scale units; den = 0 is nan, the value np.mean gives for an empty list.     *)

Frac(num, den) == [num |-> num, den |-> den]
FracAdd(a, b) == Frac(a.num * b.den + b.num * a.den, a.den * b.den)

\* Python truth of a float: 0.0 is false, nan is true
TruthyFloat(x) == x.den = 0 \/ x.num # 0

\* Python truth of score.get(key) for a number and for a list
TruthyNumber(d, k) == Has(d, k) /\ d[k] # 0
TruthyList(d, k) == Has(d, k) /\ d[k] # <<>>

RECURSIVE SumOf(_)
SumOf(values) == IF values = <<>> THEN 0 ELSE Head(values) + SumOf(Tail(values))

RECURSIVE Flatten(_)
Flatten(lists) == IF lists = <<>> THEN <<>> ELSE Head(lists) \o Flatten(Tail(lists))

\* np.mean of a list of numbers
np_mean(values) == Frac(SumOf(values), Len(values))

RECURSIVE FracSum(_)
FracSum(fracs) == IF fracs = <<>> THEN Frac(0, 1) ELSE FracAdd(Head(fracs), FracSum(Tail(fracs)))

\* np.mean of a list of floats
np_mean_floats(fracs) ==
    LET total == FracSum(fracs) IN Frac(total.num, total.den * Len(fracs))

\* the values of a key over the scores that carry a true value for it
TrueValues(scores, k) ==
    LET kept == SelectSeq(scores, LAMBDA score : TruthyNumber(score, k))
    IN [i \in DOMAIN kept |-> kept[i][k]]

\* calculate_session_averages; {} is the empty function
calculate_session_averages(session) ==
    IF ~Has(session, "scores") \/ session.scores = <<>> THEN <<>>
    ELSE [k \in Range(SCA_CATEGORIES) \cup {"total"} |->
            LET values == TrueValues(session.scores, k)
            IN IF k # "total" /\ values = <<>> THEN Frac(0, 1) ELSE np_mean(values)]

\* a Counter filled from a list: its items in insertion order
RECURSIVE CountItems(_, _)
CountItems(list, counts) ==
    IF list = <<>> THEN counts
    ELSE LET k == Head(list)
             hit == {i \in DOMAIN counts : counts[i].key = k}
         IN CountItems(Tail(list),
                       IF hit = {} THEN Append(counts, [key |-> k, count |-> 1])
                       ELSE [i \in DOMAIN counts |->
                                IF i \in hit THEN [counts[i] EXCEPT !.count = @ + 1]
                                ELSE counts[i]])

\* the items in insertion order, as a dict lists them
InsertionOrder(items) == items

\* sorted(items, key=count, reverse=True): a stable sort, equal counts keep their order
SortedByCount(items) ==
    LET Before(i, j) == \/ items[i].count > items[j].count
                        \/ items[i].count = items[j].count /\ i < j
        rank(i) == Cardinality({j \in DOMAIN items : Before(j, i)}) + 1
    IN [p \in DOMAIN items |-> items[CHOOSE i \in DOMAIN items : rank(i) = p]]

\* Counter.most_common(n) and sorted(...)[:n]
most_common(items, n) == Prefix(SortedByCount(items), n)

TopOrigins == 10
TopFlavors == 10
TopSessionFlavors == 5
TopCardFlavors == 3

\* datetime.fromisoformat(date).strftime('%Y-%m') for the dates of the model;
\* any other text raises ValueError
IsoDates == {"2025-01-21", "2025-01-30", "2025-02-03"}
month_key(date) ==
    CASE date = "2025-01-21" -> <<2025, 1>>
      [] date = "2025-01-30" -> <<2025, 1>>
      [] date = "2025-02-03" -> <<2025, 2>>

\* the 'Temporal analysis' block raises, and the except clause passes
TemporalRaises(session) == ~Has(session, "date") \/ session.date \notin IsoDates

MonthBefore(m1, m2) == m1[1] < m2[1] \/ (m1[1] = m2[1] /\ m1[2] < m2[2])

\* a loop whose try block would hold the whole body: a session that raises is skipped
IsScoredAndDated(session) ==
    /\ Get(session, "status", None) = "Scored" /\ Has(session, "scores")
    /\ ~TemporalRaises(session)

\* the sessions the loop of get_community_trends looks into
IsScored(session) == Get(session, "status", None) = "Scored" /\ Has(session, "scores")

GetSessionsDataOtherBackend(dbt, f) ==
    IF dbt = "sqlite" THEN Get(load_json_data(f), "cupping_sessions", <<>>) ELSE <<>>

\* get_sessions_data
get_sessions_data(dbt, f) ==
    IF dbt = "json" THEN Get(load_json_data(f), "cupping_sessions", <<>>) ELSE <<>>

\* get_community_trends over the sessions get_sessions_data returned; a dict that
\* keeps counts is the list of its items in insertion order
get_community_trends(sessions) ==
    IF sessions = <<>> THEN <<>>
    ELSE
    LET scored == SelectSeq(sessions, IsScored)
        valid(session) == SelectSeq(session.scores, LAMBDA score : TruthyNumber(score, "total"))
        all_scores == Flatten([i \in DOMAIN scored |->
                          [j \in DOMAIN valid(scored[i]) |-> valid(scored[i])[j].total]])
        flavored(session) ==
            SelectSeq(valid(session), LAMBDA score : TruthyList(score, "selected_flavors"))
        all_flavors == Flatten([i \in DOMAIN scored |->
                          Flatten([j \in DOMAIN flavored(scored[i]) |->
                                      flavored(scored[i])[j].selected_flavors])])
        dated == SelectSeq(scored, LAMBDA session : ~TemporalRaises(session))
        months == {month_key(dated[i].date) : i \in DOMAIN dated}
        monthly_data(month) ==
            LET of_month == SelectSeq(dated, LAMBDA session :
                                /\ month_key(session.date) = month
                                /\ LET session_avg == calculate_session_averages(session)
                                   IN Has(session_avg, "total") /\ TruthyFloat(session_avg.total))
            IN [i \in DOMAIN of_month |-> calculate_session_averages(of_month[i]).total]
        shown == {month \in months : monthly_data(month) # <<>>}
        position(month) == Cardinality({other \in shown : MonthBefore(other, month)}) + 1
        origins == CountItems(
                      Flatten([i \in DOMAIN scored |->
                          LET samples == Get(scored[i], "samples", <<>>)
                          IN [j \in DOMAIN samples |-> Get(samples[j], "origin", "Unknown")]]),
                      <<>>)
        protocols == CountItems([i \in DOMAIN scored |-> Get(scored[i], "protocol", "Unknown")],
                                <<>>)
        category_scores(category) ==
            Flatten([i \in DOMAIN scored |-> TrueValues(scored[i].scores, category)])
    IN [total_sessions |-> Len(sessions),
        total_samples |-> SumOf([i \in DOMAIN scored |-> Len(Get(scored[i], "samples", <<>>))]),
        average_scores |->
            IF all_scores = <<>> THEN <<>>
            ELSE [category \in Range(SCA_CATEGORIES) |->
                    IF category_scores(category) = <<>> THEN Frac(0, 1)
                    ELSE np_mean(category_scores(category))],
        popular_flavors |-> most_common(CountItems(all_flavors, <<>>), TopFlavors),
        score_distribution |-> all_scores,
        temporal_trends |->
            [p \in 1..Cardinality(shown) |->
                LET month == CHOOSE m \in shown : position(m) = p
                IN [month |-> month,
                    average_score |-> np_mean_floats(monthly_data(month)),
                    sessions_count |-> Len(monthly_data(month))]],
        top_origins |-> most_common(origins, TopOrigins),
        protocol_usage |-> protocols]

\* a guard that also turns away a session with a single score
NoScoresOrOneScore(session_data) ==
    \/ ~Has(session_data, "scores")
    \/ session_data.scores = <<>>
    \/ Len(session_data.scores) = 1

\* `'scores' not in session_data or not session_data['scores']`
no_scores(session_data) ==
    ~Has(session_data, "scores") \/ session_data.scores = <<>>

\* statistics whose range is the highest total alone
ScoreStatisticsRangeIsHighest(total_scores) ==
    LET highest == CHOOSE t \in Range(total_scores) : \A u \in Range(total_scores) : u <= t
        lowest == CHOOSE t \in Range(total_scores) : \A u \in Range(total_scores) : t <= u
    IN [highest_score |-> highest, lowest_score |-> lowest,
        average_score |-> np_mean(total_scores),
        score_range |-> highest]

\* the 'Calculate statistics' block of generate_session_insights: max, min, mean
\* and max - min of the totals
score_statistics(total_scores) ==
    LET highest == CHOOSE t \in Range(total_scores) : \A u \in Range(total_scores) : u <= t
        lowest == CHOOSE t \in Range(total_scores) : \A u \in Range(total_scores) : t <= u
    IN [highest_score |-> highest, lowest_score |-> lowest,
        average_score |-> np_mean(total_scores),
        score_range |-> highest - lowest]

\* generate_session_insights
generate_session_insights(session_data) ==
    IF no_scores(session_data) THEN <<>>
    ELSE
    LET scores == session_data.scores
        total_scores == TrueValues(scores, "total")
        with_values == SelectSeq(SCA_CATEGORIES, LAMBDA category :
                                    TrueValues(scores, category) # <<>>)
        category_averages == [i \in DOMAIN with_values |->
                                [name |-> with_values[i],
                                 score |-> np_mean(TrueValues(scores, with_values[i]))]]
        Greater(a, b) == a.score.num * b.score.den > b.score.num * a.score.den
        \* max() and min() keep the first of the items no other item beats
        best == CHOOSE i \in DOMAIN category_averages :
                    /\ \A j \in DOMAIN category_averages :
                          ~Greater(category_averages[j], category_averages[i])
                    /\ \A j \in 1..(i - 1) :
                          Greater(category_averages[i], category_averages[j])
        worst == CHOOSE i \in DOMAIN category_averages :
                    /\ \A j \in DOMAIN category_averages :
                          ~Greater(category_averages[i], category_averages[j])
                    /\ \A j \in 1..(i - 1) :
                          Greater(category_averages[j], category_averages[i])
        flavored == SelectSeq(scores, LAMBDA score : TruthyList(score, "selected_flavors"))
        all_flavors == Flatten([j \in DOMAIN flavored |-> flavored[j].selected_flavors])
        statistics ==
            IF total_scores = <<>> THEN <<>> ELSE score_statistics(total_scores)
        categories ==
            IF category_averages = <<>> THEN <<>>
            ELSE [best_category |-> category_averages[best],
                  worst_category |-> category_averages[worst]]
        flavors ==
            IF all_flavors = <<>> THEN <<>>
            ELSE [top_flavors |-> most_common(CountItems(all_flavors, <<>>),
                                              TopSessionFlavors)]
    IN flavors @@ categories @@ statistics

\* the dashboard and the session insights have not been computed
NotComputed == NoneDict

\* a score as Save Score stores it, with its total computed from its values
TrendScore(name, fragrance, uniformity, flavors) ==
    LET sc == [NewScore(name) EXCEPT !.fragrance = fragrance, !.uniformity = uniformity,
                                     !.selected_flavors = flavors]
    IN [sc EXCEPT !.total = EnhancedTotal(sc)]

TrendSession(name, protocol, status, samples, scores) ==
    [NewSession(uuid4(0)) EXCEPT !.name = name, !.cupper = "Ana", !.protocol = protocol,
                                 !.status = status, !.samples = samples, !.scores = scores]

\* the sessions the stores of the model are filled from: scored sessions of two
\* months, one of them with a uniformity of 0 and a second sample, a session with
\* six descriptors, sessions whose date cannot be parsed or is missing, a session
\* whose only score never got a total, a session still in setup, and the session
\* of test_database, which has no scores field
TrendSessions ==
    LET A == NewSample("A", "Huila")
        B == NewSample("B", "Yirgacheffe")
        january == TrendSession("January", "SCA Standard", "Scored", <<A>>,
                       <<TrendScore("A", 8 * Scale + 1, 10 * Scale, <<"Lemon", "Cocoa">>)>>)
        two == TrendSession("Two", "COE Protocol", "Scored", <<A, B>>,
                       <<TrendScore("A", 6 * Scale, 0, <<"Cocoa">>),
                         TrendScore("B", 10 * Scale, 10 * Scale, <<>>)>>)
        february == TrendSession("February", "SCA Standard", "Scored", <<B>>,
                       <<TrendScore("B", 9 * Scale, 10 * Scale, <<"Cocoa", "Lemon">>)>>)
        wheel == TrendSession("Wheel", "SCA Standard", "Scored", <<A, B>>,
                       <<TrendScore("A", 7 * Scale, 8 * Scale, <<"Honey", "Lemon", "Cocoa">>),
                         TrendScore("B", 7 * Scale, 8 * Scale,
                                    <<"Rose", "Cocoa", "Plum", "Nutty", "Lemon">>)>>)
        untotalled == TrendSession("Untotalled", "Custom", "Scored", <<A>>, <<NewScore("A")>>)
        setup == TrendSession("Setup", "SCA Standard", "Setup", <<B>>, <<>>)
    IN {[january EXCEPT !.date = "2025-01-21"],
        [two EXCEPT !.date = "2025-01-30"],
        [february EXCEPT !.date = "2025-02-03"],
        [wheel EXCEPT !.date = "2025-02-03"],
        [february EXCEPT !.name = "Slashes", !.date = "21/01/2025"],
        [k \in DOMAIN january \ {"date"} |-> IF k = "name" THEN "Undated" ELSE january[k]],
        [untotalled EXCEPT !.date = "2025-02-03"],
        [setup EXCEPT !.date = "2025-01-21"],
        test_session}

\* the store after save_cupping_session of each session of a list
RECURSIVE StoreOf(_)
StoreOf(sessions) ==
    IF sessions = <<>> THEN save_json_data(initial_data)
    ELSE LET n == Len(sessions)
         IN save_cupping_session("json", StoreOf(Prefix(sessions, n - 1)), no_tables, 0,
                                 sessions[n], FALSE, "share-" \o ToString(n), n).file

AnalyticsFrame ==
    UNCHANGED <<app, enhancedVars, legacyVars, file, clock, apiVars, page_views, gradeVars, faultVars>>

\* analytics_dashboard: trends_data = analytics.get_community_trends()
RenderDashboard ==
    /\ app = "analytics"
    /\ trends' = get_community_trends(get_sessions_data(db_type, file))
    /\ UNCHANGED insights
    /\ AnalyticsFrame

\* public_cupping: session_insights = analytics.generate_session_insights(session_data)
RenderInsights(share_id) ==
    /\ app = "analytics"
    /\ LET session_data == get_session_by_share_id(db_type, file, tables, share_id)
       IN /\ session_data # NoneDict
          /\ insights' = [session |-> session_data,
                          result |-> generate_session_insights(session_data)]
    /\ UNCHANGED trends
    /\ AnalyticsFrame

NextAnalytics ==
    \/ RenderDashboard
    \/ \E n \in 1..MaxStored : RenderInsights("share-" \o ToString(n))

-----------------------------------------------------------------------------
(* The JSON store on a disk that can fail.  A fault is what the next read or
   write of the file meets: open(path, 'r') raises PermissionError, open(path,
   'w') raises PermissionError before it empties the file, or json.dump raises
   OSError after open emptied it. *)

\* the names typed into Lead Cupper
Cuppers == {"Ana", "Luis"}

Faults == {"none", "read_denied", "write_denied", "write_truncated"}

NoOutcome == [op |-> "none", fault |-> "none", raised |-> FALSE, error |-> FALSE,
              done |-> FALSE]

\* load_json_data: the except clause names FileNotFoundError and JSONDecodeError only
load_json_data_on(f, fault) ==
    IF fault = "read_denied" THEN [raised |-> TRUE, data |-> initial_data]
    ELSE [raised |-> FALSE, data |-> load_json_data(f)]

\* save_json_data: every Exception of the write ends in st.error
save_json_data_on(f, data, fault) ==
    CASE fault = "write_denied" -> [file |-> f, error |-> TRUE]
      [] fault = "write_truncated" -> [file |-> TruncatedText, error |-> TRUE]
      [] OTHER -> [file |-> save_json_data(data), error |-> FALSE]

\* _log_event_json, and log_analytics_event above it: neither has a try block
log_analytics_event_on(f, event_type, session_id, now, fault) ==
    LET event == AnalyticsEvent(event_type, session_id, now)
        r == load_json_data_on(f, fault)
        w == save_json_data_on(f, [r.data EXCEPT !.analytics = Append(@, event)], fault)
    IN IF r.raised THEN [raised |-> TRUE, file |-> f, error |-> FALSE]
       ELSE [raised |-> FALSE, file |-> w.file, error |-> w.error]

\* save_cupping_session over _save_session_json: the caller's dict is stamped
\* before the store is touched, and the share id is returned whatever
\* save_json_data met
save_cupping_session_on(f, session_data, anonymous_mode, share_id, now, fault) ==
    LET stamped == StampSession(session_data, anonymous_mode, share_id, now)
        r == load_json_data_on(f, fault)
        w == save_json_data_on(
                f, [r.data EXCEPT !.cupping_sessions = Append(@, stamped)], fault)
    IN IF r.raised
       THEN [session |-> stamped, raised |-> TRUE, file |-> f, error |-> FALSE,
             ret |-> None]
       ELSE [session |-> stamped, raised |-> FALSE, file |-> w.file, error |-> w.error,
             ret |-> stamped.share_id]

\* render_share_export up to the sharing interface; done: the sharing interface
\* was rendered
render_share_export_on(cs, f, share_id, now, fault) ==
    IF Get(cs, "status", None) # "Scored"
    THEN [session |-> cs, file |-> f, raised |-> FALSE, error |-> FALSE, done |-> FALSE]
    ELSE IF Truthy(Get(cs, "share_id", None))
    THEN [session |-> cs, file |-> f, raised |-> FALSE, error |-> FALSE, done |-> TRUE]
    ELSE LET r == save_cupping_session_on(f, cs, Get(cs, "anonymous_mode", FALSE),
                                          share_id, now, fault)
         IN IF r.raised
            THEN [session |-> r.session, file |-> r.file, raised |-> TRUE,
                  error |-> FALSE, done |-> FALSE]
            ELSE IF Truthy(r.ret)
            THEN [session |-> Put(r.session, "share_id", r.ret), file |-> r.file,
                  raised |-> FALSE, error |-> r.error, done |-> TRUE]
            ELSE [session |-> r.session, file |-> r.file, raised |-> FALSE,
                  error |-> TRUE, done |-> FALSE]

\* the cupper as typed, whatever the mode
CupperAsTyped(session_data) == Get(session_data, "cupper", "Professional Cupper")

\* the cupper the public page and the share card name
cupper_name(session_data) ==
    IF Get(session_data, "anonymous_mode", FALSE) = TRUE THEN "Anonymous Taster"
    ELSE Get(session_data, "cupper", "Professional Cupper")

\* what render_public_cupping_page puts on the page from the session it read
public_page(session_data) ==
    [title |-> session_data.name,
     samples_cupped |-> Len(Get(session_data, "samples", <<>>)),
     lead_cupper |-> cupper_name(session_data),
     protocol |-> Get(session_data, "protocol", "SCA Standard"),
     date |-> Get(session_data, "date", "Recent"),
     results |->
        IF Get(session_data, "status", None) # "Scored"
           \/ Get(session_data, "scores", <<>>) = <<>>
        THEN [scored |-> FALSE, samples |-> Get(session_data, "samples", <<>>)]
        ELSE [scored |-> TRUE, scores |-> session_data.scores,
              insights |-> generate_session_insights(session_data),
              session_notes |-> Get(session_data, "session_notes", "")]]

\* what create_share_card_image draws from the session it is handed
create_share_card_image(session_data) ==
    LET scores == Get(session_data, "scores", <<>>)
        samples == Get(session_data, "samples", <<>>)
        flavored == SelectSeq(scores, LAMBDA score : TruthyList(score, "selected_flavors"))
        all_flavors == Flatten([j \in DOMAIN flavored |-> flavored[j].selected_flavors])
    IN [title |-> Get(session_data, "name", "Coffee Cupping Session"),
        sca_score |->
            IF scores = <<>> THEN NoneDict
            ELSE Frac(SumOf([i \in DOMAIN scores |-> Get(scores[i], "total", 0)]),
                      Len(scores)),
        samples |-> Len(samples),
        origin |-> IF samples = <<>> THEN None
                   ELSE Get(samples[1], "origin", "Unknown Origin"),
        cupped_by |-> cupper_name(session_data),
        date |-> Get(session_data, "date", "Recent"),
        top_flavors |-> most_common(CountItems(all_flavors, <<>>), TopCardFlavors)]

NothingShown == [page |-> NoneDict, card |-> NoneDict]

FaultFrame ==
    UNCHANGED <<app, selected, widgets, editing, legacyVars, apiVars, page_views,
                gradeVars, analyticsVars>>

\* a script run that shows the Share & Export tab of the session
VisitShareExport(fault) ==
    /\ app = "fault"
    /\ clock < MaxClock
    /\ \E share_id \in ShareIds :
          LET r == render_share_export_on(current_session, file, share_id, clock, fault)
          IN /\ current_session' = r.session
             /\ file' = r.file
             /\ outcome' = [op |-> "share_export", fault |-> fault, raised |-> r.raised,
                            error |-> r.error, done |-> r.done]
    /\ clock' = clock + 1
    /\ UNCHANGED public_view
    /\ FaultFrame

\* the Copy button of the sharing interface: st.write, then log_analytics_event,
\* then the rest of the interface
CopyLink(fault) ==
    /\ app = "fault"
    /\ clock < MaxClock
    /\ Get(current_session, "status", None) = "Scored"
    /\ Truthy(Get(current_session, "share_id", None))
    /\ LET r == log_analytics_event_on(file, "url_copied", current_session.share_id,
                                       clock, fault)
       IN /\ file' = r.file
          /\ outcome' = [op |-> "copy", fault |-> fault, raised |-> r.raised,
                         error |-> r.error, done |-> ~r.raised]
    /\ clock' = clock + 1
    /\ UNCHANGED <<current_session, public_view>>
    /\ FaultFrame

\* the Generate Share Card button of the sharing interface: the card is drawn
\* from the session and displayed, then the event is logged
GenerateShareCard(fault) ==
    /\ app = "fault"
    /\ clock < MaxClock
    /\ Get(current_session, "status", None) = "Scored"
    /\ Truthy(Get(current_session, "share_id", None))
    /\ LET r == log_analytics_event_on(file, "share_card_generated",
                                       current_session.share_id, clock, fault)
       IN /\ file' = r.file
          /\ outcome' = [op |-> "share_card", fault |-> fault, raised |-> r.raised,
                         error |-> r.error, done |-> ~r.raised]
    /\ public_view' =
          [public_view EXCEPT !.card = create_share_card_image(current_session)]
    /\ clock' = clock + 1
    /\ UNCHANGED current_session
    /\ FaultFrame

\* a visitor opens ?share=share_id: the session is read, the view is logged, the
\* page is rendered; the fault is met by the logging
ViewShared(share_id, fault) ==
    /\ app = "fault"
    /\ clock < MaxClock
    /\ LET session_data == _get_session_json(file, share_id)
           r == log_analytics_event_on(file, "public_view", share_id, clock, fault)
       IN IF session_data = NoneDict
          THEN /\ file' = file
               /\ outcome' = [op |-> "not_found", fault |-> "none", raised |-> FALSE,
                              error |-> TRUE, done |-> FALSE]
               /\ public_view' = [public_view EXCEPT !.page = NoneDict]
          ELSE /\ file' = r.file
               /\ outcome' = [op |-> "public_view", fault |-> fault, raised |-> r.raised,
                              error |-> r.error, done |-> ~r.raised]
               /\ public_view' = [public_view EXCEPT !.page = IF r.raised THEN NoneDict
                                                  ELSE public_page(session_data)]
    /\ clock' = clock + 1
    /\ UNCHANGED current_session
    /\ FaultFrame

NextFault ==
    \/ \E fault \in Faults : VisitShareExport(fault)
    \/ \E fault \in Faults : CopyLink(fault)
    \/ \E fault \in Faults : GenerateShareCard(fault)
    \/ \E share_id \in ShareIds, fault \in Faults : ViewShared(share_id, fault)

-----------------------------------------------------------------------------
(* The two Streamlit programs *)

Init ==
    /\ app \in {"enhanced", "legacy"}
    /\ current_session = NewSession(uuid4(0))
    /\ selected = 1
    /\ widgets = NoWidgets
    /\ editing = {}
    /\ file = save_json_data(initial_data)
    /\ clock = 0
    /\ cupping_sessions = <<>>
    /\ scoring_session = 0
    /\ editing_session = 0
    /\ scoring_widgets = <<>>
    /\ session_notes = ""
    /\ data_file = save_data(<<>>)
    /\ confirm_delete = {}
    /\ delete_clicks = <<>>
    /\ db_type = "json"
    /\ tables = no_tables
    /\ uuids = 1
    /\ mem = <<>>
    /\ returned = <<>>
    /\ last_get = [share_id |-> None, result |-> NoneDict]
    /\ page_views = [share_id |-> None, found |-> FALSE]
    /\ total_in = 0
    /\ grade_out = NoGrades
    /\ score_distribution = <<>>
    /\ trends = NotComputed
    /\ insights = NotComputed
    /\ outcome = NoOutcome
    /\ public_view = NothingShown

Next == NextEnhanced \/ NextLegacy

Spec == Init /\ [][Next]_vars

\* the legacy app with two sessions on its list, created and saved earlier
ListedSessions ==
    <<[LegacySession(1) EXCEPT !.name = "Morning"],
      [LegacySession(MaxSamples) EXCEPT !.name = "Evening"]>>

InitList ==
    /\ app = "legacy"
    /\ current_session = NewSession(uuid4(0))
    /\ selected = 1
    /\ widgets = NoWidgets
    /\ editing = {}
    /\ file = save_json_data(initial_data)
    /\ clock = 0
    /\ cupping_sessions = ListedSessions
    /\ scoring_session = 0
    /\ editing_session = 0
    /\ scoring_widgets = <<>>
    /\ session_notes = ""
    /\ data_file = save_data(ListedSessions)
    /\ confirm_delete = {}
    /\ delete_clicks = [i \in DOMAIN ListedSessions |-> 0]
    /\ db_type = "json"
    /\ tables = no_tables
    /\ uuids = 1
    /\ mem = <<>>
    /\ returned = <<>>
    /\ last_get = [share_id |-> None, result |-> NoneDict]
    /\ page_views = [share_id |-> None, found |-> FALSE]
    /\ total_in = 0
    /\ grade_out = NoGrades
    /\ score_distribution = <<>>
    /\ trends = NotComputed
    /\ insights = NotComputed
    /\ outcome = NoOutcome
    /\ public_view = NothingShown

SpecList == InitList /\ [][NextLegacy]_vars

\* the store under its caller, with either backend
InitDb ==
    /\ app = "api"
    /\ current_session = NewSession(uuid4(0))
    /\ selected = 1
    /\ widgets = NoWidgets
    /\ editing = {}
    /\ file = save_json_data(initial_data)
    /\ clock = 0
    /\ cupping_sessions = <<>>
    /\ scoring_session = 0
    /\ editing_session = 0
    /\ scoring_widgets = <<>>
    /\ session_notes = ""
    /\ data_file = save_data(<<>>)
    /\ confirm_delete = {}
    /\ delete_clicks = <<>>
    /\ db_type \in {"json", "sqlite"}
    /\ tables = no_tables
    /\ uuids = 1
    /\ mem = CallerSessions
    /\ returned = [i \in DOMAIN CallerSessions |-> <<>>]
    /\ last_get = [share_id |-> None, result |-> NoneDict]
    /\ page_views = [share_id |-> None, found |-> FALSE]
    /\ total_in = 0
    /\ grade_out = NoGrades
    /\ score_distribution = <<>>
    /\ trends = NotComputed
    /\ insights = NotComputed
    /\ outcome = NoOutcome
    /\ public_view = NothingShown

SpecDb == InitDb /\ [][NextDb]_vars

\* the grade labels of a sample total, and the dashboard's buckets
InitGrade ==
    /\ app = "grade"
    /\ current_session = NewSession(uuid4(0))
    /\ selected = 1
    /\ widgets = NoWidgets
    /\ editing = {}
    /\ file = save_json_data(initial_data)
    /\ clock = 0
    /\ cupping_sessions = <<>>
    /\ scoring_session = 0
    /\ editing_session = 0
    /\ scoring_widgets = <<>>
    /\ session_notes = ""
    /\ data_file = save_data(<<>>)
    /\ confirm_delete = {}
    /\ delete_clicks = <<>>
    /\ db_type = "json"
    /\ tables = no_tables
    /\ uuids = 1
    /\ mem = <<>>
    /\ returned = <<>>
    /\ last_get = [share_id |-> None, result |-> NoneDict]
    /\ page_views = [share_id |-> None, found |-> FALSE]
    /\ total_in \in Totals
    /\ grade_out = NoGrades
    /\ score_distribution = <<>>
    /\ trends = NotComputed
    /\ insights = NotComputed
    /\ outcome = NoOutcome
    /\ public_view = NothingShown

SpecGrade == InitGrade /\ [][NextGrade]_vars

\* the analytics over a store of up to MaxStored saved sessions
InitAnalytics ==
    /\ app = "analytics"
    /\ current_session = NewSession(uuid4(0))
    /\ selected = 1
    /\ widgets = NoWidgets
    /\ editing = {}
    /\ \E n \in 0..MaxStored : \E sessions \in [1..n -> TrendSessions] :
          file = StoreOf(sessions)
    /\ clock = MaxStored
    /\ cupping_sessions = <<>>
    /\ scoring_session = 0
    /\ editing_session = 0
    /\ scoring_widgets = <<>>
    /\ session_notes = ""
    /\ data_file = save_data(<<>>)
    /\ confirm_delete = {}
    /\ delete_clicks = <<>>
    /\ db_type = "json"
    /\ tables = no_tables
    /\ uuids = 1
    /\ mem = <<>>
    /\ returned = <<>>
    /\ last_get = [share_id |-> None, result |-> NoneDict]
    /\ page_views = [share_id |-> None, found |-> FALSE]
    /\ total_in = 0
    /\ grade_out = NoGrades
    /\ score_distribution = <<>>
    /\ trends = NotComputed
    /\ insights = NotComputed
    /\ outcome = NoOutcome
    /\ public_view = NothingShown

SpecAnalytics == InitAnalytics /\ [][NextAnalytics]_vars

\* a scored session of the enhanced interface in front of a store that can fail
InitFault ==
    /\ app = "fault"
    /\ \E anonymous_mode \in BOOLEAN, cupper \in Cuppers :
          current_session = [ScoredSession EXCEPT !.anonymous_mode = anonymous_mode,
                                                  !.cupper = cupper]
    /\ selected = 1
    /\ widgets = NoWidgets
    /\ editing = {}
    /\ file = save_json_data(initial_data)
    /\ clock = 0
    /\ cupping_sessions = <<>>
    /\ scoring_session = 0
    /\ editing_session = 0
    /\ scoring_widgets = <<>>
    /\ session_notes = ""
    /\ data_file = save_data(<<>>)
    /\ confirm_delete = {}
    /\ delete_clicks = <<>>
    /\ db_type = "json"
    /\ tables = no_tables
    /\ uuids = 1
    /\ mem = <<>>
    /\ returned = <<>>
    /\ last_get = [share_id |-> None, result |-> NoneDict]
    /\ page_views = [share_id |-> None, found |-> FALSE]
    /\ total_in = 0
    /\ grade_out = NoGrades
    /\ score_distribution = <<>>
    /\ trends = NotComputed
    /\ insights = NotComputed
    /\ outcome = NoOutcome
    /\ public_view = NothingShown

SpecFault == InitFault /\ [][NextFault]_vars

-----------------------------------------------------------------------------
(* Claims about the two interfaces *)

\* every Score a session of either interface holds
AllScores ==
    Range(current_session.scores)
    \cup UNION {Range(Get(cupping_sessions[i], "scores", <<>>)) : i \in DOMAIN cupping_sessions}

\* C1: every Score held in a session has total = fragrance + flavor + aftertaste +
\* acidity + body + balance + uniformity + clean_cup + sweetness + overall - defects,
\* computed from the Score's current attribute values (no stale total).
C1_TotalIsAttributeSum == \A sc \in AllScores : sc.total = AttributeSum(sc)

\* a stored Score with a deduction, in a session that holds a Score per sample
C1_Witness ==
    \E sc \in AllScores :
        /\ sc.defects > 0
        /\ \/ current_session.status = "Scored"
           \/ \E i \in DOMAIN cupping_sessions : Has(cupping_sessions[i], "last_modified")

HasScoreFor(cs, sample) ==
    \E j \in DOMAIN cs.scores : cs.scores[j].sample_name = sample.name

\* C2: in the enhanced interface, status 'Scored' implies that every registered
\* sample has a Score in the session's scores whose sample_name is the sample's name.
C2_ScoredImpliesEverySampleScored ==
    current_session.status = "Scored" =>
        \A i \in DOMAIN current_session.samples :
            HasScoreFor(current_session, current_session.samples[i])

\* the stored records of the session of the enhanced interface
StoredRecords ==
    LET sessions == load_json_data(file).cupping_sessions
    IN {i \in DOMAIN sessions :
            Get(sessions[i], "session_id", None) = current_session.session_id}

\* C3: the share_id of the session of the enhanced interface is set by the first
\* visit of Share & Export made while the status is 'Scored' (a session that is
\* 'Scored' has one, and a session that has one was stored as 'Scored' under it);
\* once set it keeps its value through every later operation, and the store holds
\* at most one record of the session.
C3_ShareIdSetOnceAndKept ==
    /\ [](/\ Cardinality(StoredRecords) <= 1
          /\ current_session.status = "Scored" => Truthy(Get(current_session, "share_id", None))
          /\ Truthy(Get(current_session, "share_id", None)) =>
                \E i \in StoredRecords :
                    LET stored == load_json_data(file).cupping_sessions[i]
                    IN stored.share_id = current_session.share_id /\ stored.status = "Scored")
    /\ [][Truthy(Get(current_session, "share_id", None)) =>
            /\ Get(current_session', "share_id", None) = current_session.share_id
            /\ file' = file]_vars

\* the session was shared and its samples and scores changed afterwards
C3_Witness ==
    /\ Truthy(Get(current_session, "share_id", None))
    /\ \E i \in StoredRecords :
          LET stored == load_json_data(file).cupping_sessions[i]
          IN /\ stored.scores # current_session.scores
             /\ stored.samples # current_session.samples
             /\ stored.status # current_session.status

\* C11: in the enhanced interface, once the session's status is 'Scored', no later
\* operation (Start Scoring, adding, editing or removing a sample, saving a score)
\* sets it back to 'Setup' or 'Ready to Score'.
C11_ScoredIsTerminal ==
    [][current_session.status = "Scored" =>
            current_session'.status \notin {"Setup", "Ready to Score"}]_vars

\* the first n elements of a list
FirstN(list, n) == SubSeq(list, 1, n)

C13_SaveScoresOnePerSample ==
    [][(scoring_session # 0 /\ scoring_session' = 0
            /\ cupping_sessions'[scoring_session].status = "Scored") =>
        LET old == cupping_sessions[scoring_session]
            new == cupping_sessions'[scoring_session]
            again == save_scores(new, scoring_widgets, session_notes)
        IN /\ new.samples = old.samples
           /\ Len(new.scores) = Len(new.samples)
           /\ \A i \in DOMAIN new.samples :
                 /\ new.scores[i].sample_name = new.samples[i].name
                 /\ \A a \in DOMAIN scoring_widgets[i] :
                       new.scores[i][a] = scoring_widgets[i][a]
           /\ new.session_notes = session_notes
           /\ new.status = "Scored"
           /\ again.scores = new.scores
           /\ again.session_notes = new.session_notes
           /\ again.status = new.status]_vars

\* a session scored with notes and a moved slider, one score for each of its
\* samples, after an edit had sent it back to be scored
C13_Witness ==
    \E i \in DOMAIN cupping_sessions :
        LET session == cupping_sessions[i]
        IN /\ session.status = "Scored"
           /\ Has(session, "last_modified")
           /\ session.session_notes # ""
           /\ Len(session.samples) = MaxSamples
           /\ Len(session.scores) = MaxSamples
           /\ session.scores[MaxSamples].flavor # session.scores[1].flavor

-----------------------------------------------------------------------------
(* Claims about the session store *)

\* the session records the store holds, in the order they were stored
StoredSessions ==
    IF db_type = "sqlite" THEN tables.cupping_sessions
    ELSE load_json_data(file).cupping_sessions

StoredShareIds == {StoredSessions[r].share_id : r \in DOMAIN StoredSessions}

\* the analytics events the store holds
StoredEvents ==
    IF db_type = "sqlite" THEN tables.analytics ELSE load_json_data(file).analytics

LastReturned(i) == returned[i][Len(returned[i])]

\* every field of a is a field of b with the same value
SameFields(a, b) == \A k \in DOMAIN a : Has(b, k) /\ b[k] = a[k]

SameList(xs, ys) ==
    Len(xs) = Len(ys) /\ \A j \in DOMAIN xs : SameFields(xs[j], ys[j])

\* C4: calling save_cupping_session twice on the same session returns the same
\* share id both times, leaves the session's share_id as the first call set it,
\* and leaves exactly one stored record of the session.
C4_RepeatSaveIsIdempotent ==
    \A i \in DOMAIN mem :
        Len(returned[i]) >= 2 =>
            /\ \A j \in DOMAIN returned[i] : returned[i][j] = returned[i][1]
            /\ mem[i].share_id = returned[i][1]
            /\ Cardinality({r \in DOMAIN StoredSessions :
                                StoredSessions[r].name = mem[i].name}) = 1

\* C5: with the JSON backend, after k = save_cupping_session(s) the call
\* get_session_by_share_id(k) returns a record equal to s field by field, whatever
\* other sessions and analytics events were saved after s.
C5_JsonRoundTrip ==
    db_type = "json" =>
        \A i \in DOMAIN mem :
            returned[i] # <<>> =>
                get_session_by_share_id(db_type, file, tables, LastReturned(i)) = mem[i]

\* C6: with the SQLite backend, after save_cupping_session(s) returned a share id
\* k, get_session_by_share_id(k) returns a session whose samples and scores are
\* those of s, also for a session s that carries no session_id.
C6_SqliteRoundTrip ==
    db_type = "sqlite" =>
        \A i \in DOMAIN mem :
            (returned[i] # <<>> /\ LastReturned(i) # None) =>
                LET g == get_session_by_share_id(db_type, file, tables, LastReturned(i))
                IN /\ g # NoneDict
                   /\ SameList(Get(mem[i], "samples", <<>>), g.samples)
                   /\ SameList(Get(mem[i], "scores", <<>>), g.scores)

\* C7: get_session_by_share_id(k) returns a stored session whose share_id is k
\* whenever one is stored and None exactly when none is; the public page logs a
\* public_view event only for a share id it found (every public_view event names
\* a stored share id, and a visit that found nothing left none).
C7_GetFindsExactlyTheStored ==
    /\ \A k \in ShareIds :
          LET g == get_session_by_share_id(db_type, file, tables, k)
          IN IF k \in StoredShareIds
             THEN /\ g # NoneDict
                  /\ g.share_id = k
                  /\ \E r \in DOMAIN StoredSessions :
                        StoredSessions[r].share_id = k /\ SameFields(StoredSessions[r], g)
             ELSE /\ g = NoneDict
                  /\ render_public_cupping_page(db_type, file, tables, k, clock)
                        = [found |-> FALSE, file |-> file, tables |-> tables, clock |-> clock]
    /\ \A e \in DOMAIN StoredEvents :
          StoredEvents[e].event_type = "public_view" =>
              StoredEvents[e].session_id \in StoredShareIds
    /\ page_views.found => page_views.share_id \in StoredShareIds

\* one visit found its session and logged it, a later one asked for a share id
\* that no stored session has, and a get returned a session
C7_Witness ==
    /\ app = "api"
    /\ page_views.share_id # None
    /\ ~page_views.found
    /\ page_views.share_id \notin StoredShareIds
    /\ \E e \in DOMAIN StoredEvents : StoredEvents[e].event_type = "public_view"
    /\ last_get.result # NoneDict

\* C8: no two stored sessions have the same share_id.
C8_ShareIdsDistinct ==
    \A r1, r2 \in DOMAIN StoredSessions :
        r1 # r2 => StoredSessions[r1].share_id # StoredSessions[r2].share_id

-----------------------------------------------------------------------------
(* Claims about the grade labels *)

\* the grade of a total: inclusive lower bounds 90, 85, 80 and 75, Fair below 75
CanonicalGrade(total) ==
    CASE total >= 90 * Scale -> "Outstanding"
      [] 85 * Scale <= total /\ total < 90 * Scale -> "Excellent"
      [] 80 * Scale <= total /\ total < 85 * Scale -> "Very Good"
      [] 75 * Scale <= total /\ total < 80 * Scale -> "Good"
      [] total < 75 * Scale -> "Fair"

\* the grade a bucket of the dashboard stands for
BucketGrade(bucket) ==
    CASE bucket = "Outstanding (90+)" -> "Outstanding"
      [] bucket = "Excellent (85-89)" -> "Excellent"
      [] bucket = "Very Good (80-84)" -> "Very Good"
      [] bucket = "Good (75-79)" -> "Good"
      [] bucket = "Fair (<75)" -> "Fair"

\* C9: the legacy scoring interface labels a total Outstanding from 90, Excellent
\* from 85, Very Good from 80, Good from 75 and Fair below 75, a boundary total
\* falling in the bucket it opens; the dashboard counts every score of
\* score_distribution in exactly one bucket, the one of the same thresholds.
C9_LegacyGradeAndBuckets ==
    /\ Has(grade_out, "legacy") =>
          /\ grade_out.total = total_in
          /\ grade_out.legacy.word = CanonicalGrade(total_in)
    /\ Has(grade_out, "dashboard") =>
          LET d == grade_out.dashboard
          IN /\ \A bucket \in DOMAIN d :
                   d[bucket] = Cardinality({i \in DOMAIN score_distribution :
                                   CanonicalGrade(score_distribution[i]) = BucketGrade(bucket)})
             /\ d["Outstanding (90+)"] + d["Excellent (85-89)"] + d["Very Good (80-84)"]
                + d["Good (75-79)"] + d["Fair (<75)"] = Len(score_distribution)

\* the boundary total 75.0 is labelled Good, and the dashboard has counted a 75.0
\* and a 74.75
C9_Witness ==
    /\ Has(grade_out, "legacy")
    /\ total_in = 75 * Scale
    /\ grade_out.legacy.word = "Good"
    /\ Has(grade_out, "dashboard")
    /\ score_distribution = <<75 * Scale, 75 * Scale - 1>>
    /\ grade_out.dashboard["Good (75-79)"] = 1
    /\ grade_out.dashboard["Fair (<75)"] = 1

\* C10: for every total the enhanced interface can give a sample, the grade label
\* of the enhanced scoring interface and of the public results page is the grade
\* the legacy scoring interface gives that total.
C10_GradeLabelsAgree ==
    (Has(grade_out, "enhanced") /\ total_in >= EnhancedMinTotal) =>
        /\ grade_out.enhanced.word = grade_out.legacy.word
        /\ grade_out.public.word = grade_out.legacy.word

-----------------------------------------------------------------------------
(* Claims about the analytics *)

\* what the dashboard gets from get_community_trends in the current state
CommunityTrends == get_community_trends(get_sessions_data(db_type, file))

\* the stored sessions whose status is 'Scored'
StoredScored == SelectSeq(StoredSessions, LAMBDA session : Get(session, "status", None) = "Scored")

AllOrigins ==
    Flatten([i \in DOMAIN StoredSessions |->
                LET samples == Get(StoredSessions[i], "samples", <<>>)
                IN [j \in DOMAIN samples |-> samples[j].origin]])

Occurrences(list, x) == Cardinality({i \in DOMAIN list : list[i] = x})

Least(a, b) == IF a <= b THEN a ELSE b

\* C15: top_origins counts sample.origin over the samples of all stored sessions
\* that have samples, scored or not, and keeps the 10 origins with the highest
\* counts.
C15_TopOriginsOverAllSessions ==
    (db_type = "json" /\ StoredSessions # <<>>) =>
        LET top == CommunityTrends.top_origins
        IN /\ Len(top) = Least(10, Cardinality(Range(AllOrigins)))
           /\ \A i \in DOMAIN top : top[i].count = Occurrences(AllOrigins, top[i].key)
           /\ \A i, j \in DOMAIN top : i # j => top[i].key # top[j].key
           /\ \A o \in Range(AllOrigins) :
                 (\A i \in DOMAIN top : top[i].key # o) =>
                     \A i \in DOMAIN top : Occurrences(AllOrigins, o) <= top[i].count

\* every Score of every stored session whose status is 'Scored'
AllScoredScores ==
    Flatten([i \in DOMAIN StoredScored |-> Get(StoredScored[i], "scores", <<>>)])

\* C16: for each of the ten attributes, average_scores[attr] is the mean over every
\* Score of every 'Scored' session: each Score contributes its value of the
\* attribute once, a value of 0 included, whatever the Score's total is.
C16_AverageOverEveryScore ==
    (Has(trends, "average_scores") /\ AllScoredScores # <<>>) =>
        \A attr \in Range(SCA_CATEGORIES) :
            /\ Has(trends.average_scores, attr)
            /\ LET average == trends.average_scores[attr]
                   values == [i \in DOMAIN AllScoredScores |-> AllScoredScores[i][attr]]
               IN /\ average.den # 0
                  /\ average.num * Len(values) = SumOf(values) * average.den

\* the totals of the valid scores of a session: the scores that carry a total
ValidTotals(session) ==
    LET valid == SelectSeq(Get(session, "scores", <<>>),
                           LAMBDA score : Has(score, "total") /\ score.total > 0)
    IN [i \in DOMAIN valid |-> valid[i].total]

\* the 'Scored' sessions dated in a month that have at least one valid score
SessionsOfMonth(month) ==
    SelectSeq(StoredScored, LAMBDA session :
        /\ Has(session, "date")
        /\ session.date \in IsoDates
        /\ month_key(session.date) = month
        /\ ValidTotals(session) # <<>>)

\* C17: temporal_trends has at most one entry per calendar month, in ascending
\* order of month; an entry's sessions_count is the number of 'Scored' sessions
\* dated in that month that have at least one valid score, and its average_score
\* is the mean of those sessions' own average totals.
C17_TemporalTrendsPerMonth ==
    Has(trends, "temporal_trends") =>
        LET entries == trends.temporal_trends
        IN /\ \A i, j \in DOMAIN entries :
                 i < j => MonthBefore(entries[i].month, entries[j].month)
           /\ \A i \in DOMAIN entries :
                 LET of_month == SessionsOfMonth(entries[i].month)
                     averages == [k \in DOMAIN of_month |->
                                     Frac(SumOf(ValidTotals(of_month[k])),
                                          Len(ValidTotals(of_month[k])))]
                     mean == Frac(FracSum(averages).num,
                                  FracSum(averages).den * Len(averages))
                     shown == entries[i].average_score
                 IN /\ entries[i].sessions_count = Len(of_month)
                    /\ Len(of_month) > 0
                    /\ shown.den # 0
                    /\ shown.num * mean.den = mean.num * shown.den
           /\ \A month \in {<<2025, 1>>, <<2025, 2>>} :
                 SessionsOfMonth(month) # <<>> =>
                     \E i \in DOMAIN entries : entries[i].month = month

\* the stored 'Scored' sessions whose date is missing or is not an ISO date
BadlyDated ==
    SelectSeq(StoredScored, LAMBDA session :
        ~Has(session, "date") \/ session.date \notin IsoDates)

\* the store without them
OtherSessions ==
    SelectSeq(StoredSessions, LAMBDA session :
        ~(/\ Get(session, "status", None) = "Scored"
          /\ (~Has(session, "date") \/ session.date \notin IsoDates)))

\* the descriptors of the valid scores of the 'Scored' sessions
AllScoredFlavors ==
    Flatten([i \in DOMAIN StoredScored |->
        LET valid == SelectSeq(StoredScored[i].scores,
                               LAMBDA score : Has(score, "total") /\ score.total > 0)
        IN Flatten([j \in DOMAIN valid |-> valid[j].selected_flavors])])

\* C18: a 'Scored' session whose date is missing or cannot be parsed is left out of
\* temporal_trends only: get_community_trends completes, temporal_trends is what
\* the other sessions alone give, and the session still counts in
\* score_distribution, total_samples, popular_flavors and protocol_usage.
C18_BadDateOnlySkipsTrends ==
    (trends # NotComputed /\ BadlyDated # <<>>) =>
        /\ Has(trends, "temporal_trends")
        /\ trends.temporal_trends =
              Get(get_community_trends(OtherSessions), "temporal_trends", <<>>)
        /\ \A i \in DOMAIN trends.temporal_trends :
              \E k \in DOMAIN OtherSessions :
                  /\ Has(OtherSessions[k], "date") /\ OtherSessions[k].date \in IsoDates
                  /\ month_key(OtherSessions[k].date) = trends.temporal_trends[i].month
        /\ trends.total_sessions = Len(StoredSessions)
        /\ trends.total_samples =
              SumOf([i \in DOMAIN StoredScored |-> Len(StoredScored[i].samples)])
        /\ trends.score_distribution =
              Flatten([i \in DOMAIN StoredScored |-> ValidTotals(StoredScored[i])])
        /\ \A flavor \in Range(AllScoredFlavors) :
              \E i \in DOMAIN trends.popular_flavors :
                  /\ trends.popular_flavors[i].key = flavor
                  /\ trends.popular_flavors[i].count = Occurrences(AllScoredFlavors, flavor)
        /\ \A i \in DOMAIN StoredScored :
              \E k \in DOMAIN trends.protocol_usage :
                  /\ trends.protocol_usage[k].key = StoredScored[i].protocol
                  /\ trends.protocol_usage[k].count =
                        Cardinality({j \in DOMAIN StoredScored :
                                        StoredScored[j].protocol = StoredScored[i].protocol})

\* the dashboard was computed over a store with a well dated 'Scored' session and
\* one whose date cannot be parsed, both with a valid score
C18_Witness ==
    /\ trends # NotComputed
    /\ Len(BadlyDated) = 1 /\ ValidTotals(BadlyDated[1]) # <<>>
    /\ Has(BadlyDated[1], "date")
    /\ Len(StoredScored) = 2
    /\ Len(trends.temporal_trends) = 1
    /\ Len(trends.score_distribution) = 2

\* the descriptors of the session the insights were computed for, in the order of
\* its scores
InsightFlavors ==
    LET scores == Get(insights.session, "scores", <<>>)
    IN Flatten([i \in DOMAIN scores |-> scores[i].selected_flavors])

FirstOccurrence(list, x) == CHOOSE i \in DOMAIN list :
    list[i] = x /\ \A j \in 1..(i - 1) : list[j] # x

\* one descriptor ranks before another: more frequent, or as frequent and seen first
RanksBefore(a, b) ==
    \/ Occurrences(InsightFlavors, a) > Occurrences(InsightFlavors, b)
    \/ /\ Occurrences(InsightFlavors, a) = Occurrences(InsightFlavors, b)
       /\ FirstOccurrence(InsightFlavors, a) < FirstOccurrence(InsightFlavors, b)

\* C19: top_flavors of generate_session_insights holds at most five descriptors,
\* each with its exact number of occurrences over the session's scores; no
\* descriptor left out is more frequent than one that is in, and descriptors of
\* equal frequency are ranked by first occurrence.
C19_TopFlavorsExact ==
    (insights # NotComputed /\ InsightFlavors # <<>>) =>
        /\ Has(insights.result, "top_flavors")
        /\ LET top == insights.result.top_flavors
               included == {top[i].key : i \in DOMAIN top}
           IN /\ Len(top) = Least(TopSessionFlavors, Cardinality(Range(InsightFlavors)))
              /\ Cardinality(included) = Len(top)
              /\ included \subseteq Range(InsightFlavors)
              /\ \A i \in DOMAIN top :
                    top[i].count = Occurrences(InsightFlavors, top[i].key)
              /\ \A i, j \in DOMAIN top : i < j => RanksBefore(top[i].key, top[j].key)
              /\ \A out \in Range(InsightFlavors) \ included :
                    \A in \in included : RanksBefore(in, out)

\* the insights of a session with six descriptors, two of them seen twice and the
\* others once: one descriptor is left out
C19_Witness ==
    /\ insights # NotComputed
    /\ Cardinality(Range(InsightFlavors)) = 6
    /\ Has(insights.result, "top_flavors")
    /\ Len(insights.result.top_flavors) = 5
    /\ insights.result.top_flavors[1].count = 2
    /\ insights.result.top_flavors[5].count = 1

\* the sum of an attribute over the scores of the session the insights were
\* computed for; all its scores count, so the sums rank the attributes as their
\* means do
InsightSum(attr) ==
    SumOf([i \in DOMAIN insights.session.scores |-> insights.session.scores[i][attr]])

\* C20: best_category (worst_category) of generate_session_insights is the
\* attribute, among all ten, with the highest (lowest) mean over the session's
\* scores; of several attributes with that mean it is the first in the canonical
\* order of the attributes.
C20_BestWorstOverAllTen ==
    (insights # NotComputed /\ Get(insights.session, "scores", <<>>) # <<>>) =>
        /\ Has(insights.result, "best_category")
        /\ Has(insights.result, "worst_category")
        /\ \E b \in DOMAIN SCA_CATEGORIES :
              /\ insights.result.best_category.name = SCA_CATEGORIES[b]
              /\ \A k \in DOMAIN SCA_CATEGORIES :
                    InsightSum(SCA_CATEGORIES[k]) <= InsightSum(SCA_CATEGORIES[b])
              /\ \A k \in 1..(b - 1) :
                    InsightSum(SCA_CATEGORIES[k]) < InsightSum(SCA_CATEGORIES[b])
              /\ insights.result.best_category.score.num * Len(insights.session.scores) =
                    InsightSum(SCA_CATEGORIES[b]) * insights.result.best_category.score.den
        /\ \E w \in DOMAIN SCA_CATEGORIES :
              /\ insights.result.worst_category.name = SCA_CATEGORIES[w]
              /\ \A k \in DOMAIN SCA_CATEGORIES :
                    InsightSum(SCA_CATEGORIES[k]) >= InsightSum(SCA_CATEGORIES[w])
              /\ \A k \in 1..(w - 1) :
                    InsightSum(SCA_CATEGORIES[k]) > InsightSum(SCA_CATEGORIES[w])
              /\ insights.result.worst_category.score.num * Len(insights.session.scores) =
                    InsightSum(SCA_CATEGORIES[w]) * insights.result.worst_category.score.den

\* the totals of the scored samples of the session the insights were computed
\* for: the Scores that carry a total
InsightTotals == ValidTotals(insights.session)

\* C21: for every session with at least one scored sample, the insights have
\* score_range = highest_score - lowest_score >= 0, the highest and the lowest
\* being totals of the session no total is above or below, and score_range = 0
\* when the session has exactly one scored sample.
C21_ScoreRange ==
    (insights # NotComputed /\ InsightTotals # <<>>) =>
        /\ Has(insights.result, "score_range")
        /\ Has(insights.result, "highest_score")
        /\ Has(insights.result, "lowest_score")
        /\ insights.result.highest_score \in Range(InsightTotals)
        /\ insights.result.lowest_score \in Range(InsightTotals)
        /\ \A t \in Range(InsightTotals) :
              insights.result.lowest_score <= t /\ t <= insights.result.highest_score
        /\ insights.result.score_range =
              insights.result.highest_score - insights.result.lowest_score
        /\ insights.result.score_range >= 0
        /\ Len(InsightTotals) = 1 => insights.result.score_range = 0

\* the insights of a session with exactly one scored sample were computed
C21_Witness ==
    /\ insights # NotComputed
    /\ Len(InsightTotals) = 1
    /\ Has(insights.result, "score_range")
    /\ insights.result.score_range = 0
    /\ insights.result.highest_score > 0

\* C22: generate_session_insights returns the empty result, without raising, for
\* every session that has no scores field or an empty scores list, and a result
\* that is not empty, with the statistics of the totals, for a session with at
\* least one Score that has a total.
C22_NoScoresNoInsights ==
    insights # NotComputed =>
        /\ (~Has(insights.session, "scores") \/ insights.session.scores = <<>>) =>
              insights.result = <<>>
        /\ InsightTotals # <<>> =>
              /\ insights.result # <<>>
              /\ Has(insights.result, "average_score")

\* the insights of a stored session without a scores field are the empty result
C22_Witness ==
    /\ insights # NotComputed
    /\ ~Has(insights.session, "scores")
    /\ insights.result = <<>>

-----------------------------------------------------------------------------
(* Claims about the event log and about failures *)

\* C23: after any sequence of save_cupping_session and log_analytics_event calls
\* on the JSON store, every analytics event logged earlier is still present,
\* unchanged and in the same relative order; a log_analytics_event call adds
\* exactly one event, the one it was called with, and a save adds none.
C23_EventsAppendOnly ==
    [][db_type = "json" =>
        LET old == load_json_data(file).analytics
            new == load_json_data(file').analytics
        IN /\ Len(new) >= Len(old)
           /\ \A i \in DOMAIN old : new[i] = old[i]
           /\ (\E share_id \in ShareIds : ApiLogEvent(share_id)) =>
                 /\ Len(new) = Len(old) + 1
                 /\ new[Len(new)].event_type = "url_copied"
                 /\ new[Len(new)].timestamp = clock
           /\ (\E i \in DOMAIN CallerSessions, anonymous_mode \in BOOLEAN :
                    ApiSave(i, anonymous_mode)) => new = old]_vars

\* the JSON store holds two events, logged before and after a session was saved
C23_Witness ==
    /\ db_type = "json"
    /\ Len(StoredEvents) = 2
    /\ \E i \in DOMAIN StoredSessions :
          /\ StoredEvents[1].timestamp < StoredSessions[i].created_at
          /\ StoredSessions[i].created_at < StoredEvents[2].timestamp

\* C24: a failure while reading or writing the store during log_analytics_event
\* is never raised to the caller: the operation that logs (a view of a shared
\* session, a copy of the share link) completes, whatever the logging met.
C24_LoggingFailureNotRaised ==
    outcome.op \in {"copy", "public_view"} =>
        /\ ~outcome.raised
        /\ outcome.done

\* the session of the interface is a record of the store
SessionPersisted ==
    \E i \in DOMAIN StoredSessions :
        Get(StoredSessions[i], "share_id", None) = Get(current_session, "share_id", "")

\* C25: when save_cupping_session does not persist the session, the session of
\* the enhanced interface is left without a share_id and the sharing interface
\* is not rendered, so that the next visit of Share & Export saves again; a
\* share_id held by the session always names a record present in the store.
C25_ShareIdNamesStoredRecord ==
    /\ Truthy(Get(current_session, "share_id", None)) => SessionPersisted
    /\ (outcome.op = "share_export" /\ ~SessionPersisted) =>
          /\ ~Truthy(Get(current_session, "share_id", None))
          /\ ~outcome.done

\* C26: for a session saved with anonymous mode on, the public results page and
\* the share card name 'Anonymous Taster' in place of the cupper, and they show
\* the same for every other cupper the session could have been saved with.
C26_AnonymousCupperHidden ==
    /\ \A i \in DOMAIN StoredSessions :
          (public_view.page # NoneDict
           /\ public_view.page = public_page(StoredSessions[i])
           /\ StoredSessions[i].anonymous_mode) =>
              /\ public_view.page.lead_cupper = "Anonymous Taster"
              /\ \A cupper \in Cuppers :
                    public_view.page =
                        public_page([StoredSessions[i] EXCEPT !.cupper = cupper])
    /\ (public_view.card # NoneDict /\ current_session.anonymous_mode) =>
          /\ public_view.card.cupped_by = "Anonymous Taster"
          /\ \A cupper \in Cuppers :
                public_view.card =
                    create_share_card_image([current_session EXCEPT !.cupper = cupper])

\* the page of a session saved with anonymous mode on and the cupper 'Luis' was
\* viewed, and its share card was generated
C26_Witness ==
    /\ public_view.page # NoneDict
    /\ public_view.card # NoneDict
    /\ current_session.anonymous_mode
    /\ current_session.cupper = "Luis"
    /\ \E i \in DOMAIN StoredSessions :
          /\ StoredSessions[i].cupper = "Luis"
          /\ StoredSessions[i].anonymous_mode
          /\ public_view.page = public_page(StoredSessions[i])

-----------------------------------------------------------------------------
(* Claims about the legacy session list *)

\* C27: a session of the legacy list is removed only after its own Delete button
\* was clicked twice: a click on the Delete button of a session that removes it
\* is never the first click on the button of that session.
C27_DeleteNeedsTwoClicks ==
    [][\A i \in DOMAIN cupping_sessions :
          (ClickDelete(i) /\ Len(cupping_sessions') < Len(cupping_sessions)) =>
              delete_clicks[i] >= 1]_vars

\* C28: Save Scores writes to the session selected with Score Session and leaves
\* every other session as it was; when another session is deleted while a
\* session is selected, the selection still names the same session, inside the
\* list.
C28_SaveScoresHitsSelectedSession ==
    [][/\ SaveScores =>
            /\ Len(cupping_sessions') = Len(cupping_sessions)
            /\ cupping_sessions'[scoring_session].status = "Scored"
            /\ \A j \in DOMAIN cupping_sessions :
                  j # scoring_session => cupping_sessions'[j] = cupping_sessions[j]
       /\ \A i \in DOMAIN cupping_sessions :
            (ClickDelete(i) /\ ScoringShown /\ i # scoring_session) =>
                /\ scoring_session' \in DOMAIN cupping_sessions'
                /\ cupping_sessions'[scoring_session'].name =
                      cupping_sessions[scoring_session].name]_vars

\* C29: the sessions written to the data file are the sessions in memory, so
\* that init_data after a restart restores the latest sessions, scores and
\* statuses.
C29_FileHoldsTheSessions ==
    load_data(data_file) = cupping_sessions

-----------------------------------------------------------------------------
(* Claims about the enhanced scoring tab *)

\* C30: moving a slider of the scoring tab while the selected sample already has
\* a saved Score leaves the Scores stored in the session as they were; only
\* Save Score changes a stored Score.
C30_StoredScoreWaitsForSave ==
    [][\A m \in SliderMoves :
          (/\ MoveSlider(m[1], m[2])
           /\ ExistingScoreIdx(current_session.scores, widgets.name) # 0) =>
              current_session'.scores = current_session.scores]_vars

=============================================================================
